---- MODULE Spec2Model ----
(***************************************************************************)
(* A model of the XRPL validator telemetry collector.                      *)
(*                                                                         *)
(* Part 1: the validation reconciliation engine of                         *)
(*   src/src/handlers/validations_handler.py (class ValidationsHandler),   *)
(*   driven by the listen task (ledgerClosed / validationReceived          *)
(*   messages), the reconciliation task and the clock.                     *)
(* Part 2: the event-order comparison of on_ledger_closed and              *)
(*   on_our_validation on two handler instances.                           *)
(* Part 3: the node client (src/src/clients/xrpl_client.py) and the        *)
(*   supervisor loop of src/src/monitor/main.py.                           *)
(*                                                                         *)
(* Time is the integer number of seconds read from time.monotonic().       *)
(***************************************************************************)
EXTENDS Integers, Sequences, FiniteSets, TLC

VARIABLES
    now,        \* the clock (seconds)
    ticks,      \* number of clock advances made so far (bounds the model)
    events,     \* number of stream messages delivered so far (bounds the model)
    eng,        \* the ValidationsHandler instance (self)
    hpc,        \* position of the listen task inside ValidationsHandler.handle
    tsdb,       \* counter samples stored in the TSDB
    epoch,      \* number of collector restarts so far
    horizon,    \* the number of clock advances the run may make
    ord,        \* two handler instances that receive one ledger's two
                \* callbacks in opposite orders, and the ledger delivered
    client,     \* the XRPLWebSocketClient instance (self) and its socket
    listen_task,        \* the task that runs XRPLWebSocketClient.listen
    heartbeat_task,     \* the task that runs _heartbeat_monitor
    sup,        \* the supervisor loop of run_monitor
    shutdown_event,     \* the shutdown token
    net,        \* frames consumed and faults injected so far (bounds the model)
    victoria,   \* the VictoriaMetricsClient and the calls of its producers
    gauges,     \* the recovered window gauges of the handler and their export
    ledger_handler,     \* the LedgerHandler instance (self)
    hot,        \* the hot path of the ValidationsHandler: its counters, its
                \* window deques and the message it handles
    exporter,   \* the state exporter: current_metrics, the poller and the
                \* /metrics request in progress
    recovery,   \* the start-up recovery of validations_total: the replies
                \* of the TSDB and the counter it leaves
    state_manager       \* the StateManager instance (self) and its database

engineVars == <<now, ticks, events, eng, hpc, tsdb, epoch, horizon>>
orderVars == <<ord>>
\* the variables that the actions of the engine leave alone
connVars == <<client, listen_task, heartbeat_task, sup, shutdown_event, net>>
writerVars == <<victoria, gauges>>
startupVars == <<recovery, state_manager>>
handlerVars == <<ledger_handler, hot, exporter, startupVars>>
nonEngineVars == <<orderVars, connVars, writerVars, handlerVars>>

-----------------------------------------------------------------------------
(* Bounds of the model *)

MaxTicks == 5
MaxEvents == 3
MaxRestarts == 1
\* clock advances of a run with a collector restart
RestartTicks == 3
\* clock advances of a run that compares the two orders of the callbacks
OrderTicks == 4
\* frames of rippled consumed by the listen loop
MaxFrames == 2
\* failures of the node or of the network: a refused connection, a failed
\* subscription, a closed or broken stream, a failed heartbeat
MaxFaults == 4
\* nested calls of listen inside one listen task
MaxDepth == 2
\* the length of the longest list given to write_metrics
MaxSamples == 2
\* the number of cancellations of a call of the VictoriaMetricsClient
MaxCancels == 1
\* the largest number of agreed records in a window deque
MaxAgreed == 5
\* the largest number of missed records in a window deque
MaxMissed == 2
\* ledgerClosed messages of a run of the LedgerHandler
MaxLedgerEvents == 4
\* clock advances and stream messages of a run of the hot path
HotTicks == 3
HotEvents == 2
\* validations of a run that fills the de-duplication set
MaxDedupEvents == 3
\* state polls and /metrics requests of a run of the state exporter
MaxPolls == 3
MaxRequests == 2

Ledgers == {1, 2}
Hashes == {"A", "B"}
\* the clock readings at which the tasks run: the k-th advance of the clock
\* adds Delta(k) seconds, so that the readings 0, 8, 9, 309, 310, 610, ...
\* fall on both sides of every deadline of the engine (an age of 8 and of 9 s,
\* of 300 and of 301 s, of 600 and of 601 s)
DeltaPattern == <<8, 1, 300, 1, 300>>
Delta(k) == DeltaPattern[((k - 1) % Len(DeltaPattern)) + 1]

-----------------------------------------------------------------------------
(* Program constants *)

GracePeriod == 8
LateRepairWindow == 300
CleanupAge == 600
ReconciliationInterval == 1

MaxReconnectAttempts == 10
HeartbeatFailureLimit == 3
SupervisorMaxReconnectAttempts == 10
SupervisorMaxDelay == 60
MaxRetries == 3
BatchSize == 100
LedgerHashBufferSize == 1000
SeenLedgersMaxSize == 2000
SeenLedgersEvicted == 500
Window1h == 3600
Window24h == 86400

\* Python's None, for a hash and for a timestamp
NoHash == "None"
NoTime == -1

-----------------------------------------------------------------------------
(* PendingLedgerRecord and the two callbacks *)

PendingLedgerRecord(consensus_hash, our_hash, closed_at, validated_at) ==
    [consensus_hash |-> consensus_hash,
     our_hash |-> our_hash,
     closed_at |-> closed_at,
     validated_at |-> validated_at,
     finalized |-> FALSE,
     finalized_as_missed_at |-> NoTime]

\* credit[i] is history: the net amount record i has added to
\* agreements_total (a) and missed_total (m) since it was created, and the
\* number of late repairs applied to it; settled is the part of the two
\* counters that no record of the table accounts for (the values recovered at
\* startup plus the credit of the records removed since)
NoCredit == [a |-> 0, m |-> 0, repairs |-> 0]

\* dict insertion: a new key goes to the end of the iteration order
Insert(e, i, rec) ==
    [e EXCEPT !.pending = @ @@ (i :> rec),
              !.order = Append(@, i),
              !.credit = @ @@ (i :> NoCredit)]

\* an on_ledger_closed that replaces the record it finds
OnLedgerClosedReplaces(e, i, consensus_hash, t) ==
    IF i \in DOMAIN e.pending
    THEN [e EXCEPT !.pending[i] =
              PendingLedgerRecord(consensus_hash, NoHash, t, NoTime)]
    ELSE Insert(e, i, PendingLedgerRecord(consensus_hash, NoHash, t, NoTime))

OnLedgerClosed(e, i, consensus_hash, t) ==
    IF i \in DOMAIN e.pending
    THEN [e EXCEPT !.pending[i].consensus_hash = consensus_hash,
                   !.pending[i].closed_at = IF @ = NoTime THEN t ELSE @]
    ELSE Insert(e, i, PendingLedgerRecord(consensus_hash, NoHash, t, NoTime))

OnOurValidation(e, i, our_hash, t) ==
    IF i \in DOMAIN e.pending
    THEN [e EXCEPT !.pending[i].our_hash = our_hash,
                   !.pending[i].validated_at = IF @ = NoTime THEN t ELSE @]
    ELSE Insert(e, i, PendingLedgerRecord(NoHash, our_hash, NoTime, t))

-----------------------------------------------------------------------------
(* One record of a reconciliation cycle *)

\* a late-repair deadline test that is off by one second
WithinRepairWindowOffByOne(repair_age) == repair_age <= LateRepairWindow + 1

\* the late-repair deadline test
WithinRepairWindow(repair_age) == repair_age <= LateRepairWindow

\* a grace-period test that lets the deadline itself through
GraceExpiredAtDeadline(age_since_close) == age_since_close >= GracePeriod

\* the grace-period test
GraceExpired(age_since_close) == age_since_close > GracePeriod

\* a late repair that credits the new verdict without undoing the missed one
LateRepairNoUndo(r, t) ==
    IF /\ r.finalized
       /\ r.finalized_as_missed_at # NoTime
       /\ r.our_hash # NoHash
       /\ WithinRepairWindow(t - r.finalized_as_missed_at)
    THEN [rec |-> [r EXCEPT !.finalized_as_missed_at = NoTime],
          dA |-> IF r.our_hash = r.consensus_hash THEN 1 ELSE 0,
          dM |-> IF r.our_hash = r.consensus_hash THEN 0 ELSE 1,
          repaired |-> 1]
    ELSE [rec |-> r, dA |-> 0, dM |-> 0, repaired |-> 0]

\* a late repair that undoes the missed verdict and forgets to count the
\* disagreement again
LateRepairNoReAdd(r, t) ==
    IF /\ r.finalized
       /\ r.finalized_as_missed_at # NoTime
       /\ r.our_hash # NoHash
       /\ WithinRepairWindow(t - r.finalized_as_missed_at)
    THEN [rec |-> [r EXCEPT !.finalized_as_missed_at = NoTime],
          dA |-> IF r.our_hash = r.consensus_hash THEN 1 ELSE 0,
          dM |-> -1,
          repaired |-> 1]
    ELSE [rec |-> r, dA |-> 0, dM |-> 0, repaired |-> 0]

\* LATE REPAIR: the record after it, and the change of the two counters
LateRepair(r, t) ==
    IF /\ r.finalized
       /\ r.finalized_as_missed_at # NoTime
       /\ r.our_hash # NoHash
       /\ WithinRepairWindow(t - r.finalized_as_missed_at)
    THEN [rec |-> [r EXCEPT !.finalized_as_missed_at = NoTime],
          dA |-> IF r.our_hash = r.consensus_hash THEN 1 ELSE 0,
          dM |-> -1 + (IF r.our_hash = r.consensus_hash THEN 0 ELSE 1),
          repaired |-> 1]
    ELSE [rec |-> r, dA |-> 0, dM |-> 0, repaired |-> 0]

\* a finalization that arms the late repair for a disagreement as well
FinalizationMarksDisagreement(r, t) ==
    IF r.our_hash # NoHash /\ r.our_hash = r.consensus_hash
    THEN [rec |-> [r EXCEPT !.finalized = TRUE],
          dA |-> 1, dM |-> 0, awaits |-> FALSE]
    ELSE IF r.our_hash # NoHash
    THEN [rec |-> [r EXCEPT !.finalized = TRUE, !.finalized_as_missed_at = t],
          dA |-> 0, dM |-> 1, awaits |-> FALSE]
    ELSE [rec |-> [r EXCEPT !.finalized_as_missed_at = t],
          dA |-> 0, dM |-> 1, awaits |-> TRUE]

\* FINALIZATION up to the await of the missed branch (or to the end of the
\* branch when we validated): awaits says whether the await is reached
Finalization(r, t) ==
    IF r.our_hash # NoHash
    THEN [rec |-> [r EXCEPT !.finalized = TRUE],
          dA |-> IF r.our_hash = r.consensus_hash THEN 1 ELSE 0,
          dM |-> IF r.our_hash = r.consensus_hash THEN 0 ELSE 1,
          awaits |-> FALSE]
    ELSE [rec |-> [r EXCEPT !.finalized_as_missed_at = t],
          dA |-> 0, dM |-> 1, awaits |-> TRUE]

\* the body of the for loop for one record, at the cycle's time t
ReconcileRecord(r, t) ==
    IF r.consensus_hash = NoHash \/ r.closed_at = NoTime
    THEN [rec |-> r, dA |-> 0, dM |-> 0, repaired |-> 0,
          remove |-> FALSE, awaits |-> FALSE]
    ELSE LET age_since_close == t - r.closed_at
             rep == LateRepair(r, t)
         IN  IF rep.rec.finalized /\ age_since_close > CleanupAge
             THEN [rec |-> rep.rec, dA |-> rep.dA, dM |-> rep.dM,
                   repaired |-> rep.repaired,
                   remove |-> TRUE, awaits |-> FALSE]
             ELSE IF ~rep.rec.finalized /\ GraceExpired(age_since_close)
             THEN LET fin == Finalization(rep.rec, t)
                  IN  [rec |-> fin.rec, dA |-> rep.dA + fin.dA,
                       dM |-> rep.dM + fin.dM,
                       repaired |-> rep.repaired,
                       remove |-> FALSE, awaits |-> fin.awaits]
             ELSE [rec |-> rep.rec, dA |-> rep.dA, dM |-> rep.dM,
                   repaired |-> rep.repaired,
                   remove |-> FALSE, awaits |-> FALSE]

-----------------------------------------------------------------------------
(* The reconciliation task: reconcile_pending_ledgers / _reconcile_cycle *)

\* the effect of one loop body on the handler
Apply(e, i, out) ==
    [e EXCEPT !.pending[i] = out.rec,
              !.agreements_total = @ + out.dA,
              !.missed_total = @ + out.dM,
              !.credit[i] = [a |-> @.a + out.dA, m |-> @.m + out.dM,
                             repairs |-> @.repairs + out.repaired],
              !.recon.to_remove = IF out.remove THEN @ \cup {i} ELSE @]

\* record.finalized = True, the statement that follows the await
AfterAwait(e, i) == [e EXCEPT !.pending[i].finalized = TRUE]

SeqWithout(s, R) == SelectSeq(s, LAMBDA k : k \notin R)

RECURSIVE SumCredit(_, _)
SumCredit(credit, K) ==
    IF K = {} THEN NoCredit
    ELSE LET k == CHOOSE x \in K : TRUE
             rest == SumCredit(credit, K \ {k})
         IN  [a |-> rest.a + credit[k].a, m |-> rest.m + credit[k].m,
              repairs |-> rest.repairs + credit[k].repairs]

\* after the loop: delete ledgers_to_remove, then sleep for the interval
EndCycle(e, tnow) ==
    LET R == e.recon.to_remove
        gone == SumCredit(e.credit, R)
    IN  [e EXCEPT !.pending = [k \in DOMAIN @ \ R |-> @[k]],
                  !.credit = [k \in DOMAIN @ \ R |-> @[k]],
                  !.order = SeqWithout(@, R),
                  !.settled = [a |-> @.a + gone.a, m |-> @.m + gone.m,
                               repairs |-> @.repairs + gone.repairs],
                  !.recon = [pc |-> "sleep", t |-> NoTime, pos |-> 0, size |-> 0,
                             to_remove |-> {},
                             wake |-> tnow + ReconciliationInterval]]

\* the for loop from position pos on, until it ends or an await suspends the
\* task; S is the set of ledgers at whose await the task is suspended (the
\* batch lock of the TSDB writer is held by another task, or the batch is
\* full and is sent)
RECURSIVE RunFrom(_, _, _, _)
RunFrom(e, pos, S, tnow) ==
    IF pos > Len(e.order)
    THEN EndCycle(e, tnow)
    ELSE LET i == e.order[pos]
             out == ReconcileRecord(e.pending[i], e.recon.t)
             e1 == Apply(e, i, out)
         IN  IF out.awaits /\ i \in S
             THEN [e1 EXCEPT !.recon.pc = "await", !.recon.pos = pos]
             ELSE RunFrom(IF out.awaits THEN AfterAwait(e1, i) ELSE e1,
                          pos + 1, S, tnow)

\* _reconcile_cycle from its first line
StartCycle(e, S, tnow) ==
    RunFrom([e EXCEPT !.recon.t = tnow, !.recon.size = Len(e.order),
                      !.recon.to_remove = {}], 1, S, tnow)

\* the task resumes after the await: the record is marked finalized, then
\* the dict iterator is advanced, which raises RuntimeError when the size of
\* the dict changed since the iteration began; the exception leaves
\* _reconcile_cycle and reconcile_pending_ledgers re-raises it
ResumeCycle(e, S, tnow) ==
    LET e1 == AfterAwait(e, e.order[e.recon.pos])
    IN  IF Len(e1.order) # e1.recon.size
        THEN [e1 EXCEPT !.recon.pc = "failed"]
        ELSE RunFrom(e1, e1.recon.pos + 1, S, tnow)

-----------------------------------------------------------------------------
(* The handler instance after construction and after recovery *)

NewHandler(agreements, missed, tnow) ==
    [pending |-> <<>>,
     order |-> <<>>,
     credit |-> <<>>,
     settled |-> [a |-> agreements, m |-> missed, repairs |-> 0],
     agreements_total |-> agreements,
     missed_total |-> missed,
     seen_ledgers |-> {},
     recon |-> [pc |-> "sleep", t |-> NoTime, pos |-> 0, size |-> 0,
                to_remove |-> {}, wake |-> tnow + ReconciliationInterval]]

\* max_over_time(xrpl_validation_agreements_total[24h]) and the same for
\* missed: every sample of the model is younger than 24 h
RecoverAgreementCounters(db) ==
    IF db.has THEN [a |-> db.maxA, m |-> db.maxM] ELSE [a |-> 0, m |-> 0]

Max(a, b) == IF a >= b THEN a ELSE b

\* the counter samples of one _write_metrics call reach the TSDB
StoreSample(db, a, m) ==
    [has |-> TRUE, maxA |-> Max(db.maxA, a), maxM |-> Max(db.maxM, m),
     lastA |-> a, lastM |-> m]

-----------------------------------------------------------------------------
(* The node client: connect, subscribe and the listen coroutine *)

\* open: the socket of self._client is open; subscribed: the node has accepted
\* a subscribe request on that socket; pings_failed is history: the number
\* of pings in a row that have failed on that socket; orphans is history: the
\* number of sockets that were still open when self._client was replaced.
\* inbox is the queue of self._client: the frames that have arrived on its
\* socket and have not been taken by listen, each named by its place in the
\* order of arrival; socket is the ordinal of the socket; dispatched is
\* history: the frames given to a handler, with the socket they came from
ConnectedClient ==
    [is_connected |-> TRUE, connection_healthy |-> TRUE,
     reconnect_attempts |-> 0, heartbeat_failures |-> 0,
     open |-> TRUE, subscribed |-> FALSE, pings_failed |-> 0, orphans |-> 0,
     inbox |-> <<>>, socket |-> 1, dispatched |-> <<>>]

\* self._client = AsyncWebsocketClient(url): the previous client object is
\* dropped as it is, without a close()
ReplaceClient(c) ==
    [c EXCEPT !.orphans = IF c.open THEN @ + 1 ELSE @,
              !.inbox = <<>>, !.socket = @ + 1]

\* connect(): a new AsyncWebsocketClient replaces self._client; ok says
\* whether open() succeeds
Connect(c, ok) ==
    IF ok
    THEN [ReplaceClient(c) EXCEPT !.is_connected = TRUE, !.connection_healthy = TRUE,
                   !.reconnect_attempts = 0,
                   !.open = TRUE, !.subscribed = FALSE, !.pings_failed = 0]
    ELSE [ReplaceClient(c) EXCEPT
                   !.is_connected = FALSE, !.connection_healthy = FALSE,
                   !.open = FALSE, !.subscribed = FALSE, !.pings_failed = 0]

\* connect() starts a heartbeat monitor when there is no heartbeat task or
\* the task is done; a task that is awaiting the close of its socket is not
StartHeartbeat(h, ok) == IF ok /\ h = "done" THEN "running" ELSE h

\* self._reconnect_backoff
ReconnectBackoff == <<1, 2, 5, 10, 30>>

\* delay = self._reconnect_backoff[min(self._reconnect_attempts - 1, len - 1)],
\* the sequence being indexed from 1 here
BackoffDelay(reconnect_attempts) ==
    ReconnectBackoff[IF reconnect_attempts < Len(ReconnectBackoff)
                     THEN reconnect_attempts ELSE Len(ReconnectBackoff)]

\* a listen task: pc is the await at which it is suspended; mode says whether
\* the innermost call of listen is inside its try block ("try") or inside one
\* of its except handlers ("except"); stack holds, for every nested call of
\* listen, the mode of its caller at the call; registered says that
\* self._listen_task is this task; cancel that a cancellation is requested;
\* delay is the length of the back-off sleep the task is in; running holds
\* the frames whose handler has been called and has not returned
NewTask ==
    [pc |-> "entry", mode |-> "try", stack |-> <<>>, cancel |-> FALSE,
     registered |-> FALSE, result |-> "none", delay |-> 0, running |-> {}]

NoTask == [NewTask EXCEPT !.pc = "done"]

\* the task ends: it returns, or an exception or the cancellation leaves it
TaskEnds(st, result) ==
    [st EXCEPT !.task.pc = "done", !.task.result = result,
               !.task.stack = <<>>, !.task.mode = "try", !.task.cancel = FALSE,
               !.task.delay = 0, !.task.running = {}]

RECURSIVE Propagate(_, _)
RECURSIVE Catch(_, _)

\* `except asyncio.CancelledError` and `except Exception` of listen: mark the
\* client disconnected, then either prepare a reconnection or re-raise
Catch(st, kind) ==
    LET s1 == [st EXCEPT !.client.is_connected = FALSE,
                         !.client.connection_healthy = FALSE,
                         !.task.running = {}]
    IN  IF s1.client.reconnect_attempts < MaxReconnectAttempts
        THEN [s1 EXCEPT !.client.reconnect_attempts = @ + 1,
                        !.task.pc = "sleep", !.task.mode = "except",
                        !.task.delay =
                            BackoffDelay(s1.client.reconnect_attempts + 1)]
        ELSE Propagate(s1, kind)

\* an exception leaves the innermost call of listen: a caller that made the
\* call inside its try block catches it, a caller that made it inside an
\* except handler lets it through
Propagate(st, kind) ==
    IF st.task.stack = <<>>
    THEN TaskEnds(st, kind)
    ELSE LET site == st.task.stack[Len(st.task.stack)]
             up == [st EXCEPT !.task.stack = SubSeq(@, 1, Len(@) - 1)]
         IN  IF site = "try" THEN Catch(up, kind) ELSE Propagate(up, kind)

\* an exception is raised at the current await of the innermost call
Raise(st, kind) ==
    IF st.task.mode = "try" THEN Catch(st, kind) ELSE Propagate(st, kind)

\* the first lines of listen, up to the first wait for a frame
ListenEnter(st) ==
    IF ~st.client.is_connected
    THEN Propagate(st, "error")
    ELSE [st EXCEPT !.task.pc = "recv", !.task.mode = "try",
                    !.task.registered = TRUE]

\* `await self.listen(handlers, on_error)` inside listen
CallListen(st) ==
    ListenEnter([st EXCEPT !.task.stack = Append(@, st.task.mode)])

\* `handler(message)` without the await: the loop goes on at once
InvokeHandlerDetached(st, id) ==
    [st EXCEPT !.task.running = @ \cup {id},
               !.client.dispatched =
                   Append(@, [id |-> id, socket |-> st.client.socket])]

\* `await handler(message)`: the loop is suspended until the handler is done
InvokeHandler(st, id) ==
    [st EXCEPT !.task.pc = "handler",
               !.task.running = @ \cup {id},
               !.client.dispatched =
                   Append(@, [id |-> id, socket |-> st.client.socket])]

\* the frame loop has ended without an exception (the break, or the end of
\* the stream): the graceful-disconnect branch; a return unwinds every
\* nested call, each caller having nothing left to do after its call
StreamEnded(st) ==
    IF ~st.client.is_connected
    THEN TaskEnds(st, "returned")
    ELSE LET s1 == [st EXCEPT !.client.is_connected = FALSE,
                              !.client.connection_healthy = FALSE]
         IN  IF s1.client.reconnect_attempts < MaxReconnectAttempts
             THEN [s1 EXCEPT !.client.reconnect_attempts = @ + 1,
                             !.task.pc = "sleep", !.task.mode = "try",
                             !.task.delay =
                                 BackoffDelay(s1.client.reconnect_attempts + 1)]
             ELSE TaskEnds(s1, "returned")

\* the heartbeat monitor gives the connection up after the third failure in
\* a row: it cancels the listen task and awaits the close of the socket
HeartbeatFailure(st) ==
    LET n == st.client.heartbeat_failures + 1
        s1 == [st EXCEPT !.client.heartbeat_failures = n,
                         !.client.pings_failed = @ + 1]
    IN  IF n >= HeartbeatFailureLimit
        THEN [s1 EXCEPT !.client.connection_healthy = FALSE,
                        !.client.is_connected = FALSE,
                        !.client.open = FALSE,
                        !.task.cancel = st.task.registered /\ st.task.pc # "done",
                        !.heartbeat = "closing"]
        ELSE s1

\* the client, the listen task and the heartbeat task after construction,
\* the first connect() and the first subscribe() of run_monitor
-----------------------------------------------------------------------------
(* The VictoriaMetricsClient: the batch, its lock and _flush_batch *)

\* the tasks that write samples: the listen task with its handlers, the
\* pollers, the reconciliation task
Producers == {1, 2}

\* a call of write_metric, write_metrics or flush by one task: pc is the
\* await at which it is suspended; op, n and flush_immediately are the call
\* and its arguments, kept until the body has used them; raised says that
\* the last call of the task ended with the exception of a POST
NoCall ==
    [pc |-> "idle", op |-> "none", n |-> 0, flush_immediately |-> FALSE,
     raised |-> FALSE]

\* holder is the task inside `async with self._batch_lock` (0: unlocked),
\* waiters the tasks suspended in its acquire, in their order; attempt and
\* delay are the locals of _flush_batch; posts and last are history: the
\* POSTs of the flush that began last and what became of its batch, and
\* the number of cancellations so far
NewWriter ==
    [batch |-> 0, holder |-> 0, waiters |-> <<>>, attempt |-> 0, delay |-> 0,
     posts |-> 0, last |-> "none", cancels |-> 0,
     call |-> [t \in Producers |-> NoCall]]

\* the end of the `async with` block and of the call
Leave(w, t, raised) ==
    [w EXCEPT !.holder = 0, !.attempt = 0, !.delay = 0,
              !.call[t] = [NoCall EXCEPT !.raised = raised]]

\* `if attempt < self.max_retries`, and the variant with one retry more
MayRetryOnceMore(attempt) == attempt <= MaxRetries

MayRetry(attempt) == attempt < MaxRetries

\* _flush_batch up to its first POST; the lock is held
FlushBatch(w, t) ==
    IF w.batch = 0
    THEN Leave(w, t, FALSE)
    ELSE [w EXCEPT !.holder = t, !.attempt = 1, !.posts = 1,
                   !.last = "none", !.call[t] = [NoCall EXCEPT !.pc = "post"]]

\* the body of the `async with` block of write_metric, write_metrics (op
\* "write") and flush (op "flush"), entered with the lock
Body(w, t) ==
    LET c == w.call[t]
        w1 == [w EXCEPT !.holder = t,
                        !.batch = IF c.op = "write" THEN @ + c.n ELSE @]
    IN  IF c.op = "write"
        THEN IF c.flush_immediately \/ w1.batch >= BatchSize
             THEN FlushBatch(w1, t)
             ELSE Leave(w1, t, FALSE)
        ELSE IF w1.batch # 0
             THEN FlushBatch(w1, t)
             ELSE Leave(w1, t, FALSE)

\* `async with self._batch_lock`: an unlocked lock that nobody waits for is
\* taken without a suspension, otherwise the task queues up
Enter(w, t, c) ==
    LET w1 == [w EXCEPT !.call[t] = c]
    IN  IF w.holder = 0 /\ w.waiters = <<>>
        THEN Body(w1, t)
        ELSE [w1 EXCEPT !.call[t].pc = "acquire",
                        !.waiters = Append(@, t)]

\* the outcomes of `await self._client.post(...)`
PostOutcomes == {"ok", "status", "timeout", "error"}

\* the rest of one round of the retry loop after the POST is over: 200 or
\* 204 clears the batch and returns; another status, a TimeoutException or
\* any other Exception is logged, and the loop sleeps or gives the batch up
AfterPost(w, t, outcome) ==
    IF outcome = "ok"
    THEN [Leave(w, t, FALSE) EXCEPT !.batch = 0, !.last = "sent"]
    ELSE IF outcome \in {"status", "timeout", "error"}
         THEN IF MayRetry(w.attempt)
              THEN [w EXCEPT !.call[t].pc = "sleep", !.delay = 2 ^ w.attempt]
              ELSE [Leave(w, t, FALSE) EXCEPT
                        !.batch = 0, !.last = "discarded"]
         ELSE Leave(w, t, TRUE)

-----------------------------------------------------------------------------
(* The window gauges of _write_metrics with their recovered baseline *)

Windows == {"1h", "24h"}

WindowSeconds(w) == IF w = "1h" THEN Window1h ELSE Window24h

\* the values of self._recovered_gauges["agreements_1h"/"agreements_24h"]
\* that the model draws; NoBaseline stands for None
NoBaseline == -1

Baselines == {NoBaseline, 0, 3, 10, 1000}

\* the ages of the recovery, in seconds, at which the model looks
RecoveryAges == <<0, 900, 1800, 1801, 3240, 3600, 43200, 86400>>

\* a decayed baseline that grows with the age of the recovery
RecoveredShareGrowing(baseline, recovery_age, window) ==
    (baseline * recovery_age) \div window

\* int(baseline * (1.0 - recovery_age / window)) for recovery_age < window:
\* int truncates, and the product is not negative
RecoveredShare(baseline, recovery_age, window) ==
    (baseline * (window - recovery_age)) \div window

\* the test that guards the decay branch of one window
Decays(baseline, recovery_age, window) ==
    recovery_age < window /\ baseline # NoBaseline

\* recovered_agreed_1h / recovered_agreed_24h, 0 when the branch is skipped
RecoveredAgreed(baseline, recovery_age, window) ==
    IF Decays(baseline, recovery_age, window)
    THEN RecoveredShare(baseline, recovery_age, window)
    ELSE 0

\* agreed_1h / agreed_24h as _write_metrics exports them
ExportedAgreements(agreed, baseline, recovery_age, window) ==
    IF recovery_age < window /\ baseline # NoBaseline
    THEN agreed + RecoveredShare(baseline, recovery_age, window)
    ELSE agreed

\* the values of self._recovered_gauges["missed_1h"/"missed_24h"]
MissedBaselines == {NoBaseline, 0, 2}

\* missed_1h / missed_24h as _write_metrics exports them: a missed baseline
\* of None counts as 0, and the branch is guarded by the agreements baseline
ExportedMissed(missed, baseline, missed_baseline, recovery_age, window) ==
    IF Decays(baseline, recovery_age, window)
    THEN missed + RecoveredShare(IF missed_baseline = NoBaseline THEN 0
                                 ELSE missed_baseline, recovery_age, window)
    ELSE missed

\* agreed / total * 100, or 0.0 for an empty total, as the fraction num / den
Percent(agreed, total) ==
    IF total > 0 THEN [num |-> 100 * agreed, den |-> total]
    ELSE [num |-> 0, den |-> 1]

\* a percentage that _write_metrics leaves as _calculate_window_stats
\* computed it from the deque
ExportedPctOfDeque(agreed, missed, baseline, missed_b, age, window) ==
    Percent(agreed, agreed + missed)

\* pct_1h / pct_24h as _write_metrics exports them: the percentage of the
\* deque, computed again from the sums when the decay branch is taken
ExportedPct(agreed, missed, baseline, missed_baseline, recovery_age, window) ==
    IF Decays(baseline, recovery_age, window)
    THEN LET a == ExportedAgreements(agreed, baseline, recovery_age, window)
             m == ExportedMissed(missed, baseline, missed_baseline,
                                 recovery_age, window)
         IN  Percent(a, a + m)
    ELSE Percent(agreed, agreed + missed)

\* baseline and missed_baseline are the recovered gauges, age the place of
\* the recovery age in RecoveryAges, agreed and missed the records of the
\* deques; emitted says that agreements, missed_out and pct hold the gauges
\* of an emission made in this very state; recovered is history: the decayed
\* agreements baseline of the last emission (NoBaseline before the first)
NoGauges ==
    [baseline |-> NoBaseline, missed_baseline |-> NoBaseline,
     age |-> 1, agreed |-> 0, missed |-> 0, emitted |-> FALSE,
     agreements |-> [w \in Windows |-> 0],
     missed_out |-> [w \in Windows |-> 0],
     pct |-> [w \in Windows |-> Percent(0, 0)],
     recovered |-> [w \in Windows |-> NoBaseline]]

-----------------------------------------------------------------------------
(* The LedgerHandler: the buffer of consensus hashes *)

\* the ledger indices and hashes that LedgerHandler.handle has stored, from
\* the oldest to the newest: the model numbers the ledgers of a run from 1
NoLedgerHandler ==
    [ledger_hashes |-> <<>>,
     ledger_hash_lookup |-> <<>>,
     recency |-> <<>>,
     latest |-> <<>>]

\* deque(maxlen=LEDGER_HASH_BUFFER_SIZE).append: a full deque drops its
\* oldest entry
DequeAppend(d, x, maxlen) ==
    IF Len(d) >= maxlen THEN Append(Tail(d), x) ELSE Append(d, x)

\* a store that never cleans the lookup dict
StoreHashKeepsAll(lh, ledger_index, ledger_hash) ==
    [lh EXCEPT
       !.ledger_hashes = DequeAppend(@, <<ledger_index, ledger_hash>>,
                                     LedgerHashBufferSize),
       !.ledger_hash_lookup = (ledger_index :> ledger_hash) @@ @,
       !.recency = Append(SeqWithout(@, {ledger_index}), ledger_index),
       !.latest = (ledger_index :> ledger_hash) @@ @]

\* the part of LedgerHandler.handle that stores a ledger's hash: the pair
\* goes to the deque and to the lookup dict, and a dict of more than
\* LEDGER_HASH_BUFFER_SIZE keys is cut down to the indices of the deque;
\* recency and latest are history: the distinct indices stored so far, the
\* last stored last, and the hash of the last event of each
StoreHash(lh, ledger_index, ledger_hash) ==
    LET hashes == DequeAppend(lh.ledger_hashes, <<ledger_index, ledger_hash>>,
                              LedgerHashBufferSize)
        lookup == (ledger_index :> ledger_hash) @@ lh.ledger_hash_lookup
        valid_indices == {hashes[k][1] : k \in DOMAIN hashes}
    IN  [lh EXCEPT
           !.ledger_hashes = hashes,
           !.ledger_hash_lookup =
               IF Cardinality(DOMAIN lookup) > LedgerHashBufferSize
               THEN [idx \in DOMAIN lookup \cap valid_indices |-> lookup[idx]]
               ELSE lookup,
           !.recency = Append(SeqWithout(@, {ledger_index}), ledger_index),
           !.latest = (ledger_index :> ledger_hash) @@ @]

\* LedgerHandler.get_consensus_hash: dict.get
GetConsensusHash(lh, ledger_index) ==
    IF ledger_index \in DOMAIN lh.ledger_hash_lookup
    THEN lh.ledger_hash_lookup[ledger_index]
    ELSE NoHash

\* the handler after the ledgers 1 .. n have closed once each
AfterLedgers(n) ==
    [ledger_hashes |-> [k \in 1..n |-> <<k, "A">>],
     ledger_hash_lookup |-> [k \in 1..n |-> "A"],
     recency |-> [k \in 1..n |-> k],
     latest |-> [k \in 1..n |-> "A"]]

-----------------------------------------------------------------------------
(* The hot path: ValidationsHandler.handle and the window deques *)

\* Python's None for a key
NoKey == ""

OurKey == "nHU"

\* the keys of the validations of the stream: our validator signing with an
\* ephemeral key, our validator without a master key, and another validator
Senders ==
    {[master_key |-> OurKey, validation_public_key |-> "n9U"],
     [master_key |-> NoKey, validation_public_key |-> OurKey],
     [master_key |-> "nHX", validation_public_key |-> "n9X"]}

OurSenders == {f \in Senders : OurKey \in {f.master_key, f.validation_public_key}}

NoMessage == [type |-> "none"]

\* a validationReceived message with its ledger_index and ledger_hash
ValidationReceived(i, h, f) ==
    [type |-> "validationReceived", ledger_index |-> i, ledger_hash |-> h,
     master_key |-> f.master_key,
     validation_public_key |-> f.validation_public_key]

\* a test that takes every validation for ours
AnyValidator(msg, our_validator_key) == TRUE

\* is_our_validator
IsOurValidator(msg, our_validator_key) ==
    \/ msg.validation_public_key # NoKey
          /\ msg.validation_public_key = our_validator_key
    \/ msg.master_key # NoKey /\ msg.master_key = our_validator_key

\* a de-duplication test that lets every ledger through
NeverSeen(seen_ledgers, ledger_index) == FALSE

\* `ledger_index in self._seen_ledgers`
AlreadySeen(seen_ledgers, ledger_index) == ledger_index \in seen_ledgers

\* the k largest members of the set of integers S
Largest(S, k) ==
    IF Cardinality(S) <= k THEN S
    ELSE LET RECURSIVE Down(_)
             Down(t) == IF Cardinality({y \in S : y >= t}) >= k
                        THEN t ELSE Down(t - 1)
             hi == CHOOSE x \in S : \A y \in S : y <= x
             t == Down(hi - k + 1)
         IN  {y \in S : y >= t}

\* sorted(S)[:k], the k smallest members of the set of integers S: at most k
\* integers lie between the least member m and m + k - 1, and each step of
\* the search lets at most one more in
Smallest(S, k) ==
    IF Cardinality(S) <= k THEN S
    ELSE LET RECURSIVE Up(_)
             Up(t) == IF Cardinality({y \in S : y <= t}) >= k
                      THEN t ELSE Up(t + 1)
             lo == CHOOSE x \in S : \A y \in S : x <= y
             t == Up(lo + k - 1)
         IN  {y \in S : y <= t}

\* self._seen_ledgers after `add` and the clean-up of a set that has grown
\* beyond _seen_ledgers_max_size
SeenAfter(seen_ledgers, ledger_index) ==
    LET S == seen_ledgers \cup {ledger_index}
    IN  IF Cardinality(S) > SeenLedgersMaxSize
        THEN S \ Smallest(S, SeenLedgersEvicted)
        ELSE S

ValidationRecord(timestamp, ledger_index, agreed) ==
    [timestamp |-> timestamp, ledger_index |-> ledger_index,
     agreed |-> agreed]

\* a count of the records appended so far, ledger by ledger
CountMore(f, i) ==
    IF i \in DOMAIN f THEN [f EXCEPT ![i] = @ + 1] ELSE (i :> 1) @@ f

\* record goes to both window deques; appended is history
AppendRecord(h, record) ==
    [h EXCEPT !.validations_1h = Append(@, record),
              !.validations_24h = Append(@, record),
              !.appended = [w \in Windows |->
                               CountMore(@[w], record.ledger_index)]]

\* message is the message that handle was last called with; emitted names
\* the caller of a _write_metrics that has emitted the gauges in this very
\* state; appended, counted and evictions are history: the records ever appended to each deque and the times
\* validations_total has counted each ledger, ledger by ledger, and the
\* number of clean-ups of the de-duplication set
NewHot(our_validator_key) ==
    [our_validator_key |-> our_validator_key,
     validations_checked_total |-> 0,
     validations_total |-> 0,
     validations_1h |-> <<>>,
     validations_24h |-> <<>>,
     message |-> NoMessage,
     emitted |-> "none",
     appended |-> [w \in Windows |-> <<>>],
     counted |-> <<>>,
     evictions |-> 0]

\* ValidationsHandler.handle for a validationReceived with a ledger_index
\* and a ledger_hash, up to the await of _write_validation_event: the new
\* hot-path state, the new handler and whether the call goes on to the
\* emission; lh is the LedgerHandler, t the clock
HandleValidation(h, e, lh, msg, t) ==
    LET i == msg.ledger_index
        h1 == [h EXCEPT !.validations_checked_total = @ + 1,
                        !.message = msg,
                        !.emitted = "none"]
    IN  IF \/ h.our_validator_key = NoKey
           \/ ~IsOurValidator(msg, h.our_validator_key)
           \/ AlreadySeen(e.seen_ledgers, i)
        THEN [hot |-> h1, eng |-> e, goes_on |-> FALSE]
        ELSE LET seen == SeenAfter(e.seen_ledgers, i)
                 consensus_hash == GetConsensusHash(lh, i)
                 agreed == \/ consensus_hash = NoHash
                           \/ msg.ledger_hash = consensus_hash
                 h2 == [h1 EXCEPT
                          !.validations_total = @ + 1,
                          !.counted = CountMore(@, i),
                          !.evictions =
                              IF e.seen_ledgers \cup {i} = seen
                              THEN @ ELSE @ + 1]
             IN  [hot |-> AppendRecord(h2, ValidationRecord(t, i, agreed)),
                  eng |-> [OnOurValidation(e, i, msg.ledger_hash, t)
                             EXCEPT !.seen_ledgers = seen],
                  goes_on |-> TRUE]

\* the loop of _prune_old_records on one deque: popleft while the record at
\* the head is older than the window
RECURSIVE PruneOldRecords(_, _, _)
PruneOldRecords(d, t, window) ==
    IF d # <<>> /\ t - Head(d).timestamp > window
    THEN PruneOldRecords(Tail(d), t, window)
    ELSE d

Deque(h, w) == IF w = "1h" THEN h.validations_1h ELSE h.validations_24h

\* _write_metrics on behalf of caller: the gauges are computed from the
\* deques as they are and sent; the deques stay as they are
WriteGauges(h, caller) == [h EXCEPT !.emitted = caller]

\* the rest of handle after the await: _prune_old_records, _write_metrics
PruneAndWrite(h, t) ==
    WriteGauges([h EXCEPT
                   !.validations_1h = PruneOldRecords(@, t, Window1h),
                   !.validations_24h = PruneOldRecords(@, t, Window24h)],
                "handle")

\* the ledgers for which a step of the reconciliation task, which takes
\* handler e to e1, has entered the missed branch of the finalization: the
\* branch stamps finalized_as_missed_at, appends a missed record to both
\* deques and awaits _write_validation_event
MissedBy(e, e1) ==
    SelectSeq(e.order,
              LAMBDA i : /\ i \in DOMAIN e1.pending
                         /\ ~e.pending[i].finalized
                         /\ e.pending[i].finalized_as_missed_at = NoTime
                         /\ e1.pending[i].finalized_as_missed_at # NoTime)

\* the missed records of the ledgers of the sequence L, appended at time t
RECURSIVE AppendMissed(_, _, _)
AppendMissed(h, L, t) ==
    IF L = <<>> THEN h
    ELSE AppendMissed(AppendRecord(h, ValidationRecord(t, Head(L), FALSE)),
                      Tail(L), t)

\* the handler whose de-duplication set holds the ledgers 2 .. n + 1: our
\* validator has validated them once each, ledger n + 1 just now and the
\* others more than 24 h ago, the pending table has been cleaned up since
DedupStart(n) ==
    LET old == 2..n
        h0 == [NewHot(OurKey) EXCEPT
                 !.validations_checked_total = n - 1,
                 !.validations_total = n - 1,
                 !.appended = [w \in Windows |-> [i \in old |-> 1]],
                 !.counted = [i \in old |-> 1]]
        e0 == [NewHandler(0, 0, 0) EXCEPT !.seen_ledgers = old]
        out == HandleValidation(h0, e0, NoLedgerHandler,
                  ValidationReceived(n + 1, "A",
                     [master_key |-> OurKey, validation_public_key |-> "n9U"]),
                  0)
    IN  [hot |-> PruneAndWrite(out.hot, 0), eng |-> out.eng]

\* the parts of the model that stand for the hot path of the
\* ValidationsHandler and for the state exporter, at rest
NoHot == [stage |-> "off"]

NoExporter == [stage |-> "off"]

NoRecovery == [stage |-> "off"]

NoStateManager == [stage |-> "off"]

StartupAtRest == recovery = NoRecovery /\ state_manager = NoStateManager

HandlersAtRest ==
    /\ ledger_handler = NoLedgerHandler
    /\ hot = NoHot
    /\ exporter = NoExporter
    /\ StartupAtRest

\* the client, the supervisor and the writer after construction
ClientStart(down) ==
    /\ victoria = NewWriter
    /\ client = [ConnectedClient EXCEPT !.subscribed = TRUE]
    /\ listen_task = NoTask
    /\ heartbeat_task = "running"
    /\ sup = [pc |-> "loop", reconnect_attempt |-> 0, delay |-> 0]
    /\ shutdown_event = FALSE
    /\ net = [frames |-> 0, faults |-> 0, down |-> down]

\* down says that the validator is unreachable from now on
ConnStartWith(down) ==
    /\ gauges = NoGauges
    /\ HandlersAtRest
    /\ ClientStart(down)

ConnStart == ConnStartWith(FALSE)

\* delay = min(2 ** reconnect_attempt, 60) of the supervisor loop
SupervisorDelayUncapped(reconnect_attempt) == 2 ^ reconnect_attempt

SupervisorDelay(reconnect_attempt) ==
    IF 2 ^ reconnect_attempt < SupervisorMaxDelay
    THEN 2 ^ reconnect_attempt ELSE SupervisorMaxDelay

\* the parts of the model that a specification does not use stay at rest
NoOrder == [stage |-> "off"]

-----------------------------------------------------------------------------
(* Actions of the engine *)

EngineStart(h) ==
    /\ horizon = h
    /\ now = 0
    /\ ticks = 0
    /\ events = 0
    /\ eng = NewHandler(0, 0, 0)
    /\ hpc = "idle"
    /\ tsdb = [has |-> FALSE, maxA |-> 0, maxM |-> 0, lastA |-> 0, lastM |-> 0]
    /\ epoch = 0

\* time passes; the reconciliation task is never late: a cycle that is due
\* runs before the clock moves on
Tick ==
    /\ ticks < horizon
    /\ eng.recon.pc = "sleep" => now < eng.recon.wake
    /\ now' = now + Delta(ticks + 1)
    /\ ticks' = ticks + 1
    /\ UNCHANGED <<events, eng, hpc, tsdb, epoch, horizon>>
    /\ UNCHANGED nonEngineVars

\* LedgerHandler.handle for a ledgerClosed message with a hash
LedgerClosed ==
    /\ events < MaxEvents
    /\ hpc = "idle"
    /\ \E i \in Ledgers, h \in Hashes : eng' = OnLedgerClosed(eng, i, h, now)
    /\ events' = events + 1
    /\ UNCHANGED <<now, ticks, hpc, tsdb, epoch, horizon>>
    /\ UNCHANGED nonEngineVars

\* ValidationsHandler.handle for a validationReceived of our validator, up
\* to the await of _write_validation_event; a ledger of the de-duplication
\* set returns before it reaches the engine
OurValidation ==
    /\ events < MaxEvents
    /\ hpc = "idle"
    /\ \E i \in Ledgers \ eng.seen_ledgers, h \in Hashes :
          eng' = [OnOurValidation(eng, i, h, now) EXCEPT !.seen_ledgers = @ \cup {i}]
    /\ events' = events + 1
    /\ hpc' = "emit"
    /\ UNCHANGED <<now, ticks, tsdb, epoch, horizon>>
    /\ UNCHANGED nonEngineVars

\* the rest of handle: _write_metrics emits the two counters
WriteMetrics ==
    /\ hpc = "emit"
    /\ tsdb' = StoreSample(tsdb, eng.agreements_total, eng.missed_total)
    /\ hpc' = "idle"
    /\ UNCHANGED <<now, ticks, events, eng, epoch, horizon>>
    /\ UNCHANGED nonEngineVars

ReconcileCycle ==
    /\ eng.recon.pc = "sleep"
    /\ now >= eng.recon.wake
    /\ \E S \in SUBSET Ledgers : eng' = StartCycle(eng, S, now)
    /\ UNCHANGED <<now, ticks, events, hpc, tsdb, epoch, horizon>>
    /\ UNCHANGED nonEngineVars

ReconcileResume ==
    /\ eng.recon.pc = "await"
    /\ \E S \in SUBSET Ledgers : eng' = ResumeCycle(eng, S, now)
    /\ UNCHANGED <<now, ticks, events, hpc, tsdb, epoch, horizon>>
    /\ UNCHANGED nonEngineVars

\* the collector process is restarted: a new handler, then
\* recover_from_victoria_metrics
Restart ==
    /\ epoch < MaxRestarts
    /\ LET c == RecoverAgreementCounters(tsdb)
       IN  eng' = NewHandler(c.a, c.m, now)
    /\ hpc' = "idle"
    /\ epoch' = epoch + 1
    /\ UNCHANGED <<now, ticks, events, tsdb, horizon>>
    /\ UNCHANGED nonEngineVars

EngineNext ==
    \/ Tick
    \/ LedgerClosed
    \/ OurValidation
    \/ WriteMetrics
    \/ ReconcileCycle
    \/ ReconcileResume

vars == <<engineVars, nonEngineVars>>

\* the engine within one process lifetime
Init == EngineStart(MaxTicks) /\ ord = NoOrder /\ ConnStart

Next == EngineNext

Spec == Init /\ [][Next]_vars

\* the engine with collector restarts
InitRestart == EngineStart(RestartTicks) /\ ord = NoOrder /\ ConnStart

NextRestart == EngineNext \/ Restart

SpecRestart == InitRestart /\ [][NextRestart]_vars

-----------------------------------------------------------------------------
(* The two callbacks of one ledger in either order *)

\* handler A is told of the close first and of our validation second, handler
\* B of our validation first and of the close second, at the same two clock
\* readings; each handler has its own reconciliation task
OrderInit ==
    /\ EngineStart(OrderTicks)
    /\ ConnStart
    /\ \E i \in Ledgers, c \in Hashes, o \in Hashes :
          ord = [stage |-> "none", inTime |-> FALSE,
                 ledger_index |-> i, consensus_hash |-> c, our_hash |-> o,
                 A |-> NewHandler(0, 0, 0), B |-> NewHandler(0, 0, 0)]

\* the finalization of ledger i has not begun in handler e
NotYetFinalized(e, i) ==
    \/ i \notin DOMAIN e.pending
    \/ (~e.pending[i].finalized /\ e.pending[i].finalized_as_missed_at = NoTime)

DeliverFirst ==
    /\ ord.stage = "none"
    /\ ord' = [ord EXCEPT
          !.stage = "first",
          !.A = OnLedgerClosed(@, ord.ledger_index, ord.consensus_hash, now),
          !.B = OnOurValidation(@, ord.ledger_index, ord.our_hash, now)]
    /\ UNCHANGED <<engineVars, connVars, writerVars, handlerVars>>

DeliverSecond ==
    /\ ord.stage = "first"
    /\ ord' = [ord EXCEPT
          !.stage = "both",
          !.inTime = /\ NotYetFinalized(ord.A, ord.ledger_index)
                     /\ NotYetFinalized(ord.B, ord.ledger_index),
          !.A = OnOurValidation(@, ord.ledger_index, ord.our_hash, now),
          !.B = OnLedgerClosed(@, ord.ledger_index, ord.consensus_hash, now)]
    /\ UNCHANGED <<engineVars, connVars, writerVars, handlerVars>>

OrderTick ==
    /\ ord.stage # "off"
    /\ ticks < horizon
    /\ \A h \in {"A", "B"} : ord[h].recon.pc = "sleep" => now < ord[h].recon.wake
    /\ now' = now + Delta(ticks + 1)
    /\ ticks' = ticks + 1
    /\ UNCHANGED <<events, eng, hpc, tsdb, epoch, horizon, ord, connVars,
                   writerVars, handlerVars>>

OrderCycle ==
    /\ ord.stage # "off"
    /\ \E h \in {"A", "B"}, S \in SUBSET Ledgers :
          /\ ord[h].recon.pc = "sleep"
          /\ now >= ord[h].recon.wake
          /\ ord' = [ord EXCEPT ![h] = StartCycle(@, S, now)]
    /\ UNCHANGED <<engineVars, connVars, writerVars, handlerVars>>

OrderResume ==
    /\ ord.stage # "off"
    /\ \E h \in {"A", "B"}, S \in SUBSET Ledgers :
          /\ ord[h].recon.pc = "await"
          /\ ord' = [ord EXCEPT ![h] = ResumeCycle(@, S, now)]
    /\ UNCHANGED <<engineVars, connVars, writerVars, handlerVars>>

NextOrder ==
    \/ DeliverFirst
    \/ DeliverSecond
    \/ OrderTick
    \/ OrderCycle
    \/ OrderResume

SpecOrder == OrderInit /\ [][NextOrder]_vars

-----------------------------------------------------------------------------
(* Actions of the node client and of the supervisor loop *)

St == [client |-> client, task |-> listen_task, heartbeat |-> heartbeat_task]

SetSt(st) ==
    /\ client' = st.client
    /\ listen_task' = st.task
    /\ heartbeat_task' = st.heartbeat

\* the network: a validator that is reachable fails a bounded number of
\* times, one that is unreachable fails every time
MayFail == net.down \/ net.faults < MaxFaults

MaySucceed == ~net.down

Fault == net' = IF net.down THEN net ELSE [net EXCEPT !.faults = @ + 1]

\* the event loop runs the new listen task for the first time
ListenStart ==
    /\ listen_task.pc = "entry"
    /\ ~listen_task.cancel
    /\ SetSt(ListenEnter(St))
    /\ UNCHANGED <<sup, shutdown_event, net, engineVars, orderVars,
                   writerVars, handlerVars>>

\* a frame of a subscribed stream arrives on the socket and is queued
FrameArrives ==
    /\ client.open
    /\ client.subscribed
    /\ MaySucceed
    /\ net.frames < MaxFrames
    /\ net' = [net EXCEPT !.frames = @ + 1]
    /\ client' = [client EXCEPT !.inbox = Append(@, net.frames + 1)]
    /\ UNCHANGED <<listen_task, heartbeat_task, sup, shutdown_event,
                   engineVars, orderVars, writerVars, handlerVars>>

\* the loop of listen takes the next frame and routes it to its handler
ListenFrame ==
    /\ listen_task.pc = "recv"
    /\ ~listen_task.cancel
    /\ client.open
    /\ client.inbox # <<>>
    /\ LET s1 == [St EXCEPT !.client.inbox = Tail(@)]
       IN  IF client.is_connected
           THEN SetSt(InvokeHandler(s1, Head(client.inbox)))
           ELSE SetSt(StreamEnded(s1))
    /\ UNCHANGED <<sup, shutdown_event, net, engineVars, orderVars,
                   writerVars, handlerVars>>

\* the handler returns, or raises an Exception that the loop logs
HandlerReturns ==
    /\ listen_task.pc = "handler"
    /\ ~listen_task.cancel
    /\ listen_task' = [listen_task EXCEPT !.pc = "recv", !.running = {}]
    /\ UNCHANGED <<client, heartbeat_task, sup, shutdown_event, net,
                   engineVars, orderVars, writerVars, handlerVars>>

\* the stream ends: the node has closed the connection in good order, or
\* the socket was closed on our side
ListenStreamEnds ==
    /\ listen_task.pc = "recv"
    /\ ~listen_task.cancel
    /\ IF client.open
       THEN MayFail /\ Fault
       ELSE UNCHANGED net
    /\ SetSt(StreamEnded([St EXCEPT !.client.open = FALSE]))
    /\ UNCHANGED <<sup, shutdown_event, engineVars, orderVars,
                   writerVars, handlerVars>>

\* the wait for a frame raises: the connection broke
ListenStreamError ==
    /\ listen_task.pc = "recv"
    /\ ~listen_task.cancel
    /\ client.open
    /\ MayFail
    /\ Fault
    /\ SetSt(Raise([St EXCEPT !.client.open = FALSE], "error"))
    /\ UNCHANGED <<sup, shutdown_event, engineVars, orderVars,
                   writerVars, handlerVars>>

\* a requested cancellation is thrown into the task at its current await; a
\* task that has not run yet ends at once
ListenCancelled ==
    /\ listen_task.pc # "done"
    /\ listen_task.cancel
    /\ IF listen_task.pc = "entry"
       THEN SetSt(TaskEnds(St, "cancelled"))
       ELSE SetSt(Raise([St EXCEPT !.task.cancel = FALSE], "cancelled"))
    /\ UNCHANGED <<sup, shutdown_event, net, engineVars, orderVars,
                   writerVars, handlerVars>>

\* the back-off sleep of listen is over: connect(); when it fails listen is
\* called at once and raises, the client not being connected
ListenReconnect ==
    /\ listen_task.pc = "sleep"
    /\ ~listen_task.cancel
    /\ \E ok \in BOOLEAN :
          LET s1 == [St EXCEPT !.client = Connect(@, ok),
                               !.heartbeat = StartHeartbeat(@, ok),
                               !.task.delay = 0]
          IN  IF ok
              THEN /\ MaySucceed
                   /\ SetSt([s1 EXCEPT !.task.pc = "subscribe"])
                   /\ UNCHANGED net
              ELSE /\ MayFail
                   /\ Fault
                   /\ SetSt(CallListen(s1))
    /\ UNCHANGED <<sup, shutdown_event, engineVars, orderVars,
                   writerVars, handlerVars>>

\* the answer to the subscribe request of listen: on success listen is
\* called, on failure subscribe raises
ListenSubscribe ==
    /\ listen_task.pc = "subscribe"
    /\ ~listen_task.cancel
    /\ \E ok \in BOOLEAN :
          IF ok
          THEN /\ client.open
               /\ MaySucceed
               /\ Len(listen_task.stack) < MaxDepth
               /\ SetSt(CallListen([St EXCEPT !.client.subscribed = TRUE]))
               /\ UNCHANGED net
          ELSE /\ IF client.open
                  THEN MayFail /\ Fault
                  ELSE UNCHANGED net
               /\ SetSt(Raise(St, "error"))
    /\ UNCHANGED <<sup, shutdown_event, engineVars, orderVars,
                   writerVars, handlerVars>>

\* one round of _heartbeat_monitor after its sleep
HeartbeatBeat ==
    /\ heartbeat_task = "running"
    /\ IF ~client.is_connected
       THEN /\ SetSt([St EXCEPT !.heartbeat = "done"])
            /\ UNCHANGED net
       ELSE \E ok \in BOOLEAN :
               IF ok
               THEN /\ client.open
                    /\ MaySucceed
                    /\ SetSt([St EXCEPT !.client.heartbeat_failures = 0,
                                        !.client.connection_healthy = TRUE,
                                        !.client.pings_failed = 0])
                    /\ UNCHANGED net
               ELSE /\ MayFail
                    /\ Fault
                    /\ SetSt(HeartbeatFailure(St))
    /\ UNCHANGED <<sup, shutdown_event, engineVars, orderVars,
                   writerVars, handlerVars>>

\* `await self._client.close()` of the heartbeat monitor returns: the loop
\* is left and the task is done
HeartbeatCloseEnds ==
    /\ heartbeat_task = "closing"
    /\ heartbeat_task' = "done"
    /\ UNCHANGED <<client, listen_task, sup, shutdown_event, net,
                   engineVars, orderVars, writerVars, handlerVars>>

\* the signal handler sets the shutdown token
SignalShutdown ==
    /\ ~shutdown_event
    /\ sup.pc # "stopped"
    /\ shutdown_event' = TRUE
    /\ UNCHANGED <<client, listen_task, heartbeat_task, sup, net,
                   engineVars, orderVars, writerVars, handlerVars>>

\* the head of the supervisor loop: leave it when the token is set,
\* otherwise create a listen task
SupervisorLoop ==
    /\ sup.pc = "loop"
    /\ IF shutdown_event
       THEN /\ sup' = [sup EXCEPT !.pc = "finalize"]
            /\ UNCHANGED listen_task
       ELSE /\ sup' = [sup EXCEPT !.pc = "wait"]
            /\ listen_task' = NewTask
    /\ UNCHANGED <<client, heartbeat_task, shutdown_event, net,
                   engineVars, orderVars, writerVars, handlerVars>>

\* asyncio.wait returns: the token is set or the listen task is done
SupervisorWake ==
    /\ sup.pc = "wait"
    /\ shutdown_event \/ listen_task.pc = "done"
    /\ IF shutdown_event
       THEN /\ listen_task' =
                  [listen_task EXCEPT !.cancel = (listen_task.pc # "done")]
            /\ sup' = [sup EXCEPT !.pc = "await_listen"]
       ELSE /\ UNCHANGED listen_task
            /\ IF ~client.is_connected
               THEN LET n == sup.reconnect_attempt + 1
                    IN  sup' = IF n > SupervisorMaxReconnectAttempts
                               THEN [sup EXCEPT !.pc = "finalize",
                                                !.reconnect_attempt = n]
                               ELSE [sup EXCEPT !.pc = "backoff",
                                                !.reconnect_attempt = n,
                                                !.delay = SupervisorDelay(n)]
               ELSE sup' = [sup EXCEPT !.pc = "loop"]
    /\ UNCHANGED <<client, heartbeat_task, shutdown_event, net,
                   engineVars, orderVars, writerVars, handlerVars>>

\* `await listen_task` after the cancellation returns when the task is done
SupervisorListenDone ==
    /\ sup.pc = "await_listen"
    /\ listen_task.pc = "done"
    /\ sup' = [sup EXCEPT !.pc = IF listen_task.result = "error"
                                 THEN "error_sleep" ELSE "finalize"]
    /\ UNCHANGED <<client, listen_task, heartbeat_task, shutdown_event, net,
                   engineVars, orderVars, writerVars, handlerVars>>

\* the back-off sleep of the supervisor is over: connect()
SupervisorReconnect ==
    /\ sup.pc = "backoff"
    /\ \E ok \in BOOLEAN :
          /\ client' = Connect(client, ok)
          /\ heartbeat_task' = StartHeartbeat(heartbeat_task, ok)
          /\ IF ok
             THEN /\ MaySucceed
                  /\ sup' = [sup EXCEPT !.pc = "subscribe", !.delay = 0]
                  /\ UNCHANGED net
             ELSE /\ MayFail
                  /\ Fault
                  /\ sup' = [sup EXCEPT !.pc = "loop", !.delay = 0]
    /\ UNCHANGED <<listen_task, shutdown_event, engineVars, orderVars,
                   writerVars, handlerVars>>

\* the answer to the subscribe request of the supervisor
SupervisorSubscribe ==
    /\ sup.pc = "subscribe"
    /\ \E ok \in BOOLEAN :
          IF ok
          THEN /\ client.open
               /\ MaySucceed
               /\ client' = [client EXCEPT !.subscribed = TRUE]
               /\ sup' = [sup EXCEPT !.pc = "loop", !.reconnect_attempt = 0]
               /\ UNCHANGED net
          ELSE /\ IF client.open
                  THEN MayFail /\ Fault
                  ELSE UNCHANGED net
               /\ sup' = [sup EXCEPT !.pc = "error_sleep"]
               /\ UNCHANGED client
    /\ UNCHANGED <<listen_task, heartbeat_task, shutdown_event,
                   engineVars, orderVars, writerVars, handlerVars>>

\* `except Exception` of the supervisor loop: sleep 5 s, then loop
SupervisorRetry ==
    /\ sup.pc = "error_sleep"
    /\ sup' = [sup EXCEPT !.pc = "loop"]
    /\ UNCHANGED <<client, listen_task, heartbeat_task, shutdown_event, net,
                   engineVars, orderVars, writerVars, handlerVars>>

\* the finally block of run_monitor: flush and close the TSDB client, then
\* disconnect() stops the heartbeat and closes the socket
Finalize ==
    /\ sup.pc = "finalize"
    /\ sup' = [sup EXCEPT !.pc = "stopped"]
    /\ heartbeat_task' = "done"
    /\ client' = IF client.is_connected
                 THEN [client EXCEPT !.is_connected = FALSE,
                                     !.connection_healthy = FALSE,
                                     !.open = FALSE]
                 ELSE client
    /\ UNCHANGED <<listen_task, shutdown_event, net, engineVars, orderVars,
                   writerVars, handlerVars>>

\* reconcile_pending_ledgers ends with the exception of a cycle (see
\* ResumeCycle): it logs and re-raises, and the task is done
ReconciliationTaskFails ==
    /\ eng.recon.pc # "failed"
    /\ sup.pc # "stopped"
    /\ eng' = [eng EXCEPT !.recon.pc = "failed"]
    /\ UNCHANGED <<now, ticks, events, hpc, tsdb, epoch, horizon>>
    /\ UNCHANGED nonEngineVars

ConnInit == EngineStart(0) /\ ord = NoOrder /\ ConnStart

NextConn ==
    \/ ListenStart
    \/ FrameArrives
    \/ ListenFrame
    \/ HandlerReturns
    \/ ListenStreamEnds
    \/ ListenStreamError
    \/ ListenCancelled
    \/ ListenReconnect
    \/ ListenSubscribe
    \/ HeartbeatBeat
    \/ HeartbeatCloseEnds
    \/ SignalShutdown
    \/ SupervisorLoop
    \/ SupervisorWake
    \/ SupervisorListenDone
    \/ SupervisorReconnect
    \/ SupervisorSubscribe
    \/ SupervisorRetry
    \/ Finalize
    \/ ReconciliationTaskFails

SpecConn == ConnInit /\ [][NextConn]_vars

-----------------------------------------------------------------------------
(* The validator becomes unreachable just after the start and stays so:
   every ping and every connect() fails, no frame arrives, and subscribe is
   never reached.  The event loop runs every task that is ready and every
   sleep ends; the signal and the loss of an open stream are not forced. *)

DownInit == EngineStart(0) /\ ord = NoOrder /\ ConnStartWith(TRUE)

\* iterating a socket that has been closed on our side ends
ClosedStreamEnds == ListenStreamEnds /\ ~client.open

NextDown ==
    \/ ListenStart
    \/ ListenStreamEnds
    \/ ListenStreamError
    \/ ListenCancelled
    \/ ListenReconnect
    \/ HeartbeatBeat
    \/ HeartbeatCloseEnds
    \/ SignalShutdown
    \/ SupervisorLoop
    \/ SupervisorWake
    \/ SupervisorListenDone
    \/ SupervisorReconnect
    \/ SupervisorRetry
    \/ Finalize

DownFairness ==
    /\ WF_vars(ListenStart)
    /\ WF_vars(ClosedStreamEnds)
    /\ WF_vars(ListenCancelled)
    /\ WF_vars(ListenReconnect)
    /\ WF_vars(HeartbeatBeat)
    /\ WF_vars(HeartbeatCloseEnds)
    /\ WF_vars(SupervisorLoop)
    /\ WF_vars(SupervisorWake)
    /\ WF_vars(SupervisorListenDone)
    /\ WF_vars(SupervisorReconnect)
    /\ WF_vars(SupervisorRetry)
    /\ WF_vars(Finalize)

SpecDown == DownInit /\ [][NextDown]_vars /\ DownFairness

-----------------------------------------------------------------------------
(* Actions of the producers of the VictoriaMetricsClient *)

WriterUnchanged ==
    UNCHANGED <<engineVars, orderVars, connVars, gauges, handlerVars>>

\* a task calls write_metric (one sample) or write_metrics (a list)
CallWrite ==
    /\ \E t \in Producers, n \in 1..MaxSamples, f \in BOOLEAN :
          /\ victoria.call[t].pc = "idle"
          /\ victoria' = Enter(victoria, t,
                               [NoCall EXCEPT !.op = "write", !.n = n,
                                              !.flush_immediately = f])
    /\ WriterUnchanged

\* a task calls flush
CallFlush ==
    /\ \E t \in Producers :
          /\ victoria.call[t].pc = "idle"
          /\ victoria' = Enter(victoria, t, [NoCall EXCEPT !.op = "flush"])
    /\ WriterUnchanged

\* the lock is free: the task that has waited longest gets it
LockGranted ==
    /\ victoria.holder = 0
    /\ victoria.waiters # <<>>
    /\ victoria' = Body([victoria EXCEPT !.waiters = Tail(@)],
                        Head(victoria.waiters))
    /\ WriterUnchanged

\* the POST is over
PostAnswer ==
    /\ \E t \in Producers, outcome \in PostOutcomes :
          /\ victoria.call[t].pc = "post"
          /\ victoria' = AfterPost(victoria, t, outcome)
    /\ WriterUnchanged

\* the sleep between two attempts is over: the next POST
SleepEnds ==
    /\ \E t \in Producers :
          /\ victoria.call[t].pc = "sleep"
          /\ victoria' = [victoria EXCEPT !.call[t].pc = "post",
                                          !.attempt = @ + 1,
                                          !.posts = @ + 1,
                                          !.delay = 0]
    /\ WriterUnchanged

\* the task is cancelled in the call (the listen task in a handler, a
\* background task at shutdown): CancelledError leaves the `async with`
\* block, or the queue of the lock, and the batch stays as it is
CallCancelled ==
    /\ victoria.cancels < MaxCancels
    /\ \E t \in Producers :
          /\ victoria.call[t].pc # "idle"
          /\ victoria' =
                IF victoria.call[t].pc = "acquire"
                THEN [victoria EXCEPT
                        !.waiters = SelectSeq(@, LAMBDA u : u # t),
                        !.cancels = @ + 1,
                        !.call[t] = NoCall]
                ELSE [Leave(victoria, t, FALSE) EXCEPT
                        !.cancels = @ + 1]
    /\ WriterUnchanged

WriterInit == EngineStart(0) /\ ord = NoOrder /\ ConnStart

NextWriter ==
    \/ CallWrite
    \/ CallFlush
    \/ LockGranted
    \/ PostAnswer
    \/ SleepEnds
    \/ CallCancelled

\* every POST ends (the client has a timeout), every sleep ends, and the
\* event loop runs a task that has been given the lock
WriterFairness ==
    /\ WF_vars(LockGranted)
    /\ WF_vars(PostAnswer)
    /\ WF_vars(SleepEnds)

SpecWriter == WriterInit /\ [][NextWriter]_vars /\ WriterFairness

-----------------------------------------------------------------------------
(* Properties of the reconciliation engine *)

\* the task is suspended at the await of record i's finalization
AwaitingAt(e, i) ==
    /\ e.recon.pc = "await"
    /\ e.order[e.recon.pos] = i

\* the two counters are the settled part plus the credit of the live records
CountersAccounted(e) ==
    LET live == SumCredit(e.credit, DOMAIN e.pending)
    IN  /\ e.agreements_total = e.settled.a + live.a
        /\ e.missed_total = e.settled.m + live.m

\* this step runs the loop body of the reconciliation cycle for record i
CycleVisits(i) ==
    LET pre == eng.recon
        post == eng'.recon
        first == IF pre.pc = "sleep" THEN 1 ELSE pre.pos + 1
        last == IF post.pc = "await" THEN post.pos ELSE Len(eng.order)
    IN  /\ post # pre
        /\ pre.pc \in {"sleep", "await"}
        /\ post.pc # "failed"
        /\ \E k \in first..last : eng.order[k] = i

Verdict(r) ==
    IF r.our_hash = r.consensus_hash THEN [a |-> 1, m |-> 0] ELSE [a |-> 0, m |-> 1]

\* C1: every record of the pending table has added exactly one net increment
\* to agreements_total + missed_total once its finalization has begun, and
\* nothing before; a late repair keeps it at one, and the credit of a removed
\* record stays in the counters.
C1_ExactlyOnce ==
    /\ CountersAccounted(eng)
    /\ \A i \in DOMAIN eng.pending :
          LET c == eng.credit[i]
          IN  /\ c.a \in {0, 1}
              /\ c.m \in {0, 1}
              /\ c.a + c.m = IF eng.pending[i].finalized \/ AwaitingAt(eng, i)
                             THEN 1 ELSE 0

\* a ledger was finalized as missed, repaired as an agreement and removed
C1_Witness ==
    /\ eng.settled.repairs >= 1
    /\ eng.settled.a >= 1
    /\ eng.settled.m = 0

\* C2: a cycle that finalizes a record whose close and whose validation were
\* both recorded before it credits an agreement alone when the hashes are
\* equal and a miss alone when they differ, and leaves finalized_as_missed_at
\* unset; a finalized record without that marker is never repaired.
C2_TimelyVerdict ==
    [][\A i \in DOMAIN eng.pending \cap DOMAIN eng'.pending :
          LET r == eng.pending[i]
              r2 == eng'.pending[i]
          IN  /\ (/\ ~r.finalized
                  /\ ~AwaitingAt(eng, i)
                  /\ r.our_hash # NoHash
                  /\ r2.finalized)
                 => /\ eng'.credit[i].a = Verdict(r).a
                    /\ eng'.credit[i].m = Verdict(r).m
                    /\ r2.finalized_as_missed_at = NoTime
                    /\ CountersAccounted(eng')
              /\ (r.finalized /\ r.finalized_as_missed_at = NoTime)
                 => /\ eng'.credit[i] = eng.credit[i]
                    /\ r2.finalized_as_missed_at = NoTime
      ]_vars

\* a timely disagreement has been finalized: counted as missed, not repairable
C2_Witness ==
    \E i \in DOMAIN eng.pending :
        LET r == eng.pending[i]
        IN  /\ r.finalized
            /\ r.our_hash # NoHash
            /\ r.consensus_hash # r.our_hash
            /\ r.validated_at # NoTime
            /\ r.validated_at - r.closed_at <= GracePeriod
            /\ eng.credit[i] = [a |-> 0, m |-> 1, repairs |-> 0]
            /\ now - r.closed_at > LateRepairWindow

\* C3 as claimed: when our validation of a ledger finalized as missed arrived
\* within 300 s of the missed verdict, the next cycle that reaches the record
\* clears the marker, takes the miss back and credits the verdict of the
\* hashes.
C3_RepairWhenArrivedInWindow ==
    [][\A i \in DOMAIN eng.pending \cap DOMAIN eng'.pending :
          LET r == eng.pending[i]
          IN  (/\ CycleVisits(i)
               /\ r.finalized
               /\ r.finalized_as_missed_at # NoTime
               /\ r.our_hash # NoHash
               /\ r.validated_at # NoTime
               /\ r.validated_at - r.finalized_as_missed_at <= LateRepairWindow)
              => /\ eng'.pending[i].finalized_as_missed_at = NoTime
                 /\ eng'.credit[i].a = Verdict(r).a
                 /\ eng'.credit[i].m = Verdict(r).m
      ]_vars

\* our validation arrived more than 300 s after the missed verdict
ArrivedAfterWindow(r) ==
    /\ r.finalized
    /\ r.finalized_as_missed_at # NoTime
    /\ r.validated_at # NoTime
    /\ r.validated_at - r.finalized_as_missed_at > LateRepairWindow

\* C4: once our validation has arrived more than 300 s after the missed
\* verdict, the ledger stays counted as missed and no step changes what it
\* has added to either counter.
C4_NoRepairAfterWindow ==
    [][\A i \in DOMAIN eng.pending \cap DOMAIN eng'.pending :
          ArrivedAfterWindow(eng.pending[i])
          => /\ eng.credit[i] = [a |-> 0, m |-> 1, repairs |-> 0]
             /\ eng'.credit[i] = eng.credit[i]
             /\ ArrivedAfterWindow(eng'.pending[i])
      ]_vars

\* a cycle has run at a later clock reading than the late arrival
C4_Witness ==
    \E i \in DOMAIN eng.pending :
        /\ ArrivedAfterWindow(eng.pending[i])
        /\ now > eng.pending[i].validated_at
        /\ eng.recon.pc = "sleep"
        /\ eng.recon.wake > now

\* C5: between two points at which another task runs, agreements_total does
\* not decrease and agreements_total + missed_total does not decrease;
\* missed_total decreases only in a step that late-repairs a record.
C5_Monotonic ==
    [][/\ eng'.agreements_total >= eng.agreements_total
       /\ eng'.agreements_total + eng'.missed_total
             >= eng.agreements_total + eng.missed_total
       /\ eng'.missed_total < eng.missed_total
          => \E i \in DOMAIN eng.pending :
                /\ CycleVisits(i)
                /\ eng.pending[i].finalized_as_missed_at # NoTime
                /\ eng.pending[i].our_hash = eng.pending[i].consensus_hash
      ]_vars

\* a miss was taken back and counted again as a disagreement
C5_Witness ==
    \E i \in DOMAIN eng.pending :
        /\ eng.credit[i] = [a |-> 0, m |-> 1, repairs |-> 1]
        /\ eng.agreements_total + eng.missed_total >= 2

\* C6 as claimed: an insertion into the pending table while a cycle is
\* suspended at its await never stops the reconciliation task.
C6_ReconciliationTaskNeverStops == eng.recon.pc # "failed"

\* C8 as claimed: after a restart each counter has the value of its last
\* sample before the restart.
C8_CountersSurviveRestart ==
    [][(epoch' = epoch + 1 /\ tsdb.has)
       => /\ eng'.agreements_total = tsdb.lastA
          /\ eng'.missed_total = tsdb.lastM
      ]_vars

\* handler e has taken its verdict on ledger i
VerdictTaken(e, i) ==
    \/ i \notin DOMAIN e.pending
    \/ e.pending[i].finalized

\* C7: when both callbacks of a ledger were delivered before its finalization
\* began, the handler that was told of the close first and the handler that
\* was told of our validation first end with the same agreements_total and
\* the same missed_total, one verdict in all.
C7_OrderIndependent ==
    (/\ ord.stage = "both"
     /\ ord.inTime
     /\ VerdictTaken(ord.A, ord.ledger_index)
     /\ VerdictTaken(ord.B, ord.ledger_index))
    => /\ ord.A.agreements_total = ord.B.agreements_total
       /\ ord.A.missed_total = ord.B.missed_total
       /\ ord.A.agreements_total + ord.A.missed_total = 1

\* both orders ended in an agreement, the second callback having come later
\* than the first
C7_Witness ==
    /\ ord.stage = "both"
    /\ ord.inTime
    /\ ord.ledger_index \in DOMAIN ord.A.pending \cap DOMAIN ord.B.pending
    /\ ord.A.pending[ord.ledger_index].finalized
    /\ ord.B.pending[ord.ledger_index].finalized
    /\ ord.A.pending[ord.ledger_index].closed_at
          < ord.B.pending[ord.ledger_index].closed_at
    /\ ord.A.agreements_total = 1
    /\ ord.B.agreements_total = 1

-----------------------------------------------------------------------------
(* Properties of the node client and of the supervisor loop *)

\* C9 as claimed: once the supervisor has cancelled the listen task for the
\* shutdown and the cancellation has been delivered, the task is not
\* listening again.
C9_ShutdownCancelEndsListen ==
    (sup.pc = "await_listen" /\ ~listen_task.cancel)
    => listen_task.pc # "recv"

\* C10 as claimed: whenever the listen task waits for frames on a connected
\* client, subscribe has succeeded on the socket it reads.
C10_ListenOnlyWhenSubscribed ==
    (listen_task.pc = "recv" /\ client.is_connected) => client.subscribed

\* this step is a connect() that succeeds, in listen or in the supervisor
ConnectSucceeds ==
    \/ listen_task.pc = "sleep" /\ listen_task'.pc = "subscribe"
    \/ sup.pc = "backoff" /\ sup'.pc = "subscribe"

\* C11 as claimed: a connect() that succeeds leaves reconnect_attempts at 0,
\* heartbeat_failures at 0 and a heartbeat task running.
C11_ConnectResets ==
    [][ConnectSucceeds
       => /\ client'.reconnect_attempts = 0
          /\ client'.heartbeat_failures = 0
          /\ heartbeat_task' = "running"
      ]_vars

\* this step is the heartbeat monitor closing the socket and cancelling listen
ForcedClose ==
    /\ heartbeat_task = "running"
    /\ heartbeat_task' = "closing"
    /\ client.is_connected
    /\ ~client'.is_connected
    /\ sup' = sup

\* C12 as claimed: the heartbeat monitor closes the socket exactly when the
\* third ping in a row has failed on the current connection, and a ping that
\* succeeds leaves the failure count at 0.
C12_ForcedCloseOnThirdFailure ==
    [][/\ ForcedClose => client'.pings_failed = HeartbeatFailureLimit
       /\ (client'.pings_failed = HeartbeatFailureLimit
            /\ client.pings_failed < HeartbeatFailureLimit) => ForcedClose
       /\ client'.heartbeat_failures # client.heartbeat_failures
          => client'.heartbeat_failures \in {0, client.heartbeat_failures + 1}
       /\ (client'.pings_failed < client.pings_failed /\ client.is_connected)
          => client'.heartbeat_failures = 0
      ]_vars

\* this step is a connect() of listen that fails
ClientAttemptFails ==
    /\ listen_task.pc = "sleep"
    /\ ~listen_task.cancel
    /\ ~listen_task'.cancel
    /\ listen_task' # listen_task
    /\ listen_task'.pc # "subscribe"

\* C13 as claimed: every back-off sleep of listen lasts
\* backoff[min(k - 1, 4)] s, k being the number of attempts since the last
\* connect() that succeeded, and an attempt that fails below the maximum is
\* followed by the next attempt with the next delay of 1, 2, 5, 10, 30, 30...
C13_BackoffSequence ==
    [][/\ listen_task'.pc = "sleep" /\ listen_task' # listen_task
          => listen_task'.delay = BackoffDelay(client'.reconnect_attempts)
       /\ (ClientAttemptFails
            /\ client.reconnect_attempts < MaxReconnectAttempts)
          => /\ listen_task'.pc = "sleep"
             /\ client'.reconnect_attempts = client.reconnect_attempts + 1
             /\ listen_task'.delay =
                    BackoffDelay(client.reconnect_attempts + 1)
      ]_vars

\* the delays of the supervisor, attempt by attempt
SupervisorDelays == <<2, 4, 8, 16, 32, 60, 60, 60, 60, 60>>

\* C14: while the validator stays unreachable the supervisor never makes an
\* attempt beyond the tenth, attempt k waits min(2^k, 60) s, the count of
\* attempts is never reset, and the supervisor leaves its loop and the
\* process shuts down.
C14_SupervisorGivesUp ==
    /\ [](sup.pc = "backoff"
            => /\ sup.reconnect_attempt \in 1..SupervisorMaxReconnectAttempts
               /\ sup.delay = SupervisorDelays[sup.reconnect_attempt])
    /\ [][sup'.reconnect_attempt >= sup.reconnect_attempt]_vars
    /\ <>(sup.pc = "stopped")

\* the supervisor has given up after ten failed attempts, without a signal
C14_Witness ==
    /\ sup.pc = "stopped"
    /\ sup.reconnect_attempt = SupervisorMaxReconnectAttempts + 1
    /\ ~shutdown_event

\* the sockets that are open: the one of self._client and the orphans
OpenSockets == client.orphans + (IF client.open THEN 1 ELSE 0)

\* C15 as claimed: at most one socket is open at any time.
C15_AtMostOneSocket == OpenSockets <= 1

\* C16: frames are given to handlers in the order of their arrival, also
\* across a reconnection, and a handler is called only when no handler of an
\* earlier frame is still running.
C16_OrderedDispatch ==
    /\ [](\A i, j \in 1..Len(client.dispatched) :
             i < j => client.dispatched[i].id < client.dispatched[j].id)
    /\ [](Cardinality(listen_task.running) <= 1)
    /\ [][client'.dispatched # client.dispatched
            => listen_task.running = {}]_vars

\* two frames have been dispatched, the second one after a reconnection
C16_Witness ==
    /\ Len(client.dispatched) = 2
    /\ client.dispatched[1].socket < client.dispatched[2].socket
    /\ listen_task.pc = "recv"

\* C17 as claimed: when asyncio.wait of the supervisor returns while the
\* reconciliation task has ended with an exception, the supervisor leaves its
\* loop for the shutdown; it does not go on reconnecting or listening.
C17_SupervisorStopsOnDeadTask ==
    [][(eng.recon.pc = "failed" /\ sup.pc = "wait" /\ sup'.pc # "wait")
          => sup'.pc \in {"await_listen", "finalize"}
      ]_vars

-----------------------------------------------------------------------------
(* The gauges of a handler that has recovered a baseline *)

GaugeUnchanged ==
    UNCHANGED <<engineVars, orderVars, connVars, victoria, handlerVars>>

\* a validation of ours that agrees enters the deques
AgreedRecord ==
    /\ gauges.agreed < MaxAgreed
    /\ gauges' = [gauges EXCEPT !.agreed = @ + 1, !.emitted = FALSE]
    /\ GaugeUnchanged

\* the reconciliation cycle appends a missed record to the deques, or a
\* validation of ours that disagrees enters them
MissedRecord ==
    /\ gauges.missed < MaxMissed
    /\ gauges' = [gauges EXCEPT !.missed = @ + 1, !.emitted = FALSE]
    /\ GaugeUnchanged

\* time passes
RecoveryAgePasses ==
    /\ gauges.age < Len(RecoveryAges)
    /\ gauges' = [gauges EXCEPT !.age = @ + 1, !.emitted = FALSE]
    /\ GaugeUnchanged

\* _write_metrics computes the gauges of the two windows
EmitGauges ==
    /\ LET recovery_age == RecoveryAges[gauges.age]
       IN  gauges' = [gauges EXCEPT
             !.emitted = TRUE,
             !.agreements = [w \in Windows |->
                 ExportedAgreements(gauges.agreed, gauges.baseline,
                                    recovery_age, WindowSeconds(w))],
             !.missed_out = [w \in Windows |->
                 ExportedMissed(gauges.missed, gauges.baseline,
                                gauges.missed_baseline, recovery_age,
                                WindowSeconds(w))],
             !.pct = [w \in Windows |->
                 ExportedPct(gauges.agreed, gauges.missed, gauges.baseline,
                             gauges.missed_baseline, recovery_age,
                             WindowSeconds(w))],
             !.recovered = [w \in Windows |->
                 RecoveredAgreed(gauges.baseline, recovery_age,
                                 WindowSeconds(w))]]
    /\ GaugeUnchanged

GaugeInit ==
    /\ EngineStart(0)
    /\ ord = NoOrder
    /\ ClientStart(FALSE)
    /\ HandlersAtRest
    /\ \E b \in Baselines, m \in MissedBaselines :
          gauges = [NoGauges EXCEPT !.baseline = b, !.missed_baseline = m]

NextGauge == AgreedRecord \/ MissedRecord \/ RecoveryAgePasses \/ EmitGauges

SpecGauge == GaugeInit /\ [][NextGauge]_vars

-----------------------------------------------------------------------------
(* The LedgerHandler on a stream of ledgerClosed messages *)

\* the index of the ledger stored last, 0 before the first
LastLedger(lh) ==
    IF lh.recency = <<>> THEN 0 ELSE lh.recency[Len(lh.recency)]

\* the ledgers rippled may close next: the ledger that follows the last, the
\* last again (a ledgerClosed repeated after a reconnection) and ledger 1
NextLedgers(lh) == {LastLedger(lh) + 1, LastLedger(lh), 1} \ {0}

\* LedgerHandler.handle for a ledgerClosed message with ledger_index,
\* ledger_hash and ledger_time; the metrics that the rest of handle writes
\* are not part of the model
LedgerEvent ==
    /\ events < MaxLedgerEvents
    /\ \E i \in NextLedgers(ledger_handler), h \in Hashes :
          ledger_handler' = StoreHash(ledger_handler, i, h)
    /\ events' = events + 1
    /\ UNCHANGED <<now, ticks, eng, hpc, tsdb, epoch, horizon>>
    /\ UNCHANGED <<orderVars, connVars, writerVars, hot, exporter,
                   startupVars>>

\* the sizes of the buffer at which the model begins: empty, and one below
\* and at LEDGER_HASH_BUFFER_SIZE
LedgerStarts == {0, LedgerHashBufferSize - 1, LedgerHashBufferSize}

LedgerInit ==
    /\ EngineStart(0)
    /\ ord = NoOrder
    /\ gauges = NoGauges
    /\ ClientStart(FALSE)
    /\ hot = NoHot
    /\ exporter = NoExporter
    /\ StartupAtRest
    /\ \E n \in LedgerStarts : ledger_handler = AfterLedgers(n)

NextLedger == LedgerEvent

SpecLedger == LedgerInit /\ [][NextLedger]_vars

-----------------------------------------------------------------------------
(* The hot path with the reconciliation task and the clock *)

\* the clock readings of the hot path: 0, 8, 9, 3609, 86409, 86410, ... fall
\* on both sides of the grace period and of the two windows (a record made
\* at second 9 is 3600 s old at 3609 and 86400 s old at 86409)
HotPattern == <<8, 1, 3600, 82800, 1>>
HotDelta(k) == HotPattern[((k - 1) % Len(HotPattern)) + 1]

HotUnchanged ==
    UNCHANGED <<orderVars, connVars, writerVars, exporter, startupVars>>

HotTick ==
    /\ ticks < horizon
    /\ eng.recon.pc = "sleep" => now < eng.recon.wake
    /\ now' = now + HotDelta(ticks + 1)
    /\ ticks' = ticks + 1
    /\ hot' = [hot EXCEPT !.emitted = "none"]
    /\ UNCHANGED <<events, eng, hpc, tsdb, epoch, horizon, ledger_handler>>
    /\ HotUnchanged

\* LedgerHandler.handle for a ledgerClosed message: the hash is stored and
\* on_ledger_closed is called
HotLedgerClosed ==
    /\ events < HotEvents
    /\ hpc = "idle"
    /\ \E i \in Ledgers, h \in Hashes :
          /\ ledger_handler' = StoreHash(ledger_handler, i, h)
          /\ eng' = OnLedgerClosed(eng, i, h, now)
          /\ hot' = [hot EXCEPT
                !.emitted = "none",
                !.message = [type |-> "ledgerClosed", ledger_index |-> i,
                             ledger_hash |-> h]]
    /\ events' = events + 1
    /\ UNCHANGED <<now, ticks, hpc, tsdb, epoch, horizon>>
    /\ HotUnchanged

\* ValidationsHandler.handle up to its first suspension, for a validation
\* of a ledger of I with a hash of H from a sender of F
Validation(I, H, F) ==
    /\ hpc = "idle"
    /\ \E i \in I, h \in H, f \in F :
          LET out == HandleValidation(hot, eng, ledger_handler,
                                      ValidationReceived(i, h, f), now)
          IN  /\ hot' = out.hot
              /\ eng' = out.eng
              /\ hpc' = IF out.goes_on THEN "emit" ELSE "idle"
    /\ events' = events + 1
    /\ UNCHANGED <<now, ticks, tsdb, epoch, horizon, ledger_handler>>
    /\ HotUnchanged

HotValidation ==
    /\ events < HotEvents
    /\ Validation(Ledgers, Hashes, Senders)

\* handle resumes after the await of _write_validation_event
HotEmit ==
    /\ hpc = "emit"
    /\ hot' = PruneAndWrite(hot, now)
    /\ hpc' = "idle"
    /\ UNCHANGED <<now, ticks, events, eng, tsdb, epoch, horizon,
                   ledger_handler>>
    /\ HotUnchanged

\* flush_metrics is called
FlushMetrics ==
    /\ hot.emitted # "flush_metrics"
    /\ hot' = WriteGauges(hot, "flush_metrics")
    /\ UNCHANGED <<engineVars, ledger_handler>>
    /\ HotUnchanged

\* a step of the reconciliation task with the missed records it appends
HotReconcile(e1) ==
    /\ eng' = e1
    /\ hot' = [AppendMissed(hot, MissedBy(eng, e1), now)
                  EXCEPT !.emitted = "none"]
    /\ UNCHANGED <<now, ticks, events, hpc, tsdb, epoch, horizon,
                   ledger_handler>>
    /\ HotUnchanged

\* the awaits of a cycle all return at once, or all suspend the task
Suspensions == {{}, Ledgers}

HotCycle ==
    /\ eng.recon.pc = "sleep"
    /\ now >= eng.recon.wake
    /\ \E S \in Suspensions : HotReconcile(StartCycle(eng, S, now))

HotResume ==
    /\ eng.recon.pc = "await"
    /\ \E S \in Suspensions : HotReconcile(ResumeCycle(eng, S, now))

\* the collector with or without VALIDATOR_PUBLIC_KEY
HandleInit ==
    /\ EngineStart(HotTicks)
    /\ ord = NoOrder
    /\ gauges = NoGauges
    /\ ClientStart(FALSE)
    /\ ledger_handler = NoLedgerHandler
    /\ exporter = NoExporter
    /\ StartupAtRest
    /\ \E k \in {OurKey, NoKey} : hot = NewHot(k)

NextHandle ==
    \/ HotTick
    \/ HotLedgerClosed
    \/ HotValidation
    \/ HotEmit
    \/ FlushMetrics
    \/ HotCycle
    \/ HotResume

SpecHandle == HandleInit /\ [][NextHandle]_vars

-----------------------------------------------------------------------------
(* The de-duplication set at its limit *)

\* the ledgers our validator validates: new ledgers below and above the
\* set, and ledgers of the set on both sides of the 500 smallest
DedupLedgers ==
    {1, 2, SeenLedgersEvicted + 1, SeenLedgersEvicted + 2,
     SeenLedgersMaxSize + 2, SeenLedgersMaxSize + 3}

DedupValidation ==
    /\ events < MaxDedupEvents
    /\ Validation(DedupLedgers, {"A"}, OurSenders)

\* the sizes of the de-duplication set at which the model begins
DedupStarts == {SeenLedgersMaxSize - 1, SeenLedgersMaxSize}

DedupInit ==
    /\ horizon = 0
    /\ now = 0
    /\ ticks = 0
    /\ events = 0
    /\ hpc = "idle"
    /\ tsdb = [has |-> FALSE, maxA |-> 0, maxM |-> 0, lastA |-> 0, lastM |-> 0]
    /\ epoch = 0
    /\ ord = NoOrder
    /\ gauges = NoGauges
    /\ ClientStart(FALSE)
    /\ ledger_handler = NoLedgerHandler
    /\ exporter = NoExporter
    /\ StartupAtRest
    /\ \E n \in DedupStarts :
          /\ hot = DedupStart(n).hot
          /\ eng = DedupStart(n).eng

NextDedup == DedupValidation \/ HotEmit

SpecDedup == DedupInit /\ [][NextDedup]_vars

-----------------------------------------------------------------------------
(* The state exporter: the state poller and a /metrics request *)

\* the values of server_info that fetch_server_state returns: rippled down,
\* a stock node, and a validator in two states
PollResults ==
    {[server_state |-> "down", state_value |-> 0, pubkey_validator |-> ""],
     [server_state |-> "full", state_value |-> 5, pubkey_validator |-> "none"],
     [server_state |-> "full", state_value |-> 5, pubkey_validator |-> "nHU"],
     [server_state |-> "proposing", state_value |-> 7,
      pubkey_validator |-> "nHU"]}

\* node_mode as run_state_polling_loop derives it from pubkey_validator
NodeMode(pubkey_validator) ==
    IF pubkey_validator = "" \/ pubkey_validator = "none"
    THEN "stock_node" ELSE "validator"

\* the four values of current_metrics that one state poll writes together
StateMetrics(r) ==
    [state_value |-> r.state_value,
     state_name |-> r.server_state,
     pubkey_validator |-> r.pubkey_validator,
     node_mode |-> NodeMode(r.pubkey_validator)]

\* current_metrics as the module defines it
InitialMetrics ==
    [state_value |-> 0, state_name |-> "down", pubkey_validator |-> "",
     node_mode |-> "unknown"]

NoResponse == [pc |-> "none"]

\* request is the serve_metrics call of the server thread with its locals;
\* response is the body of the last answer; written is history: the values
\* that the module and each poll have written together
NewExporter ==
    [current_metrics |-> InitialMetrics,
     request |-> [pc |-> "idle"],
     response |-> NoResponse,
     written |-> {InitialMetrics},
     polls |-> 0,
     requests |-> 0]

ExporterUnchanged ==
    UNCHANGED <<engineVars, orderVars, connVars, writerVars,
                ledger_handler, hot, startupVars>>

\* one round of run_state_polling_loop with a server_result: the block under
\* metrics_lock writes the values of the poll
StatePoll ==
    /\ exporter.polls < MaxPolls
    /\ \E r \in PollResults :
          exporter' = [exporter EXCEPT
             !.current_metrics = StateMetrics(r),
             !.written = @ \cup {StateMetrics(r)},
             !.polls = @ + 1]
    /\ ExporterUnchanged

\* serve_metrics, its first block under metrics_lock: the server thread
\* copies state_value, state_name and pubkey_validator
ServeMetricsBegins ==
    /\ exporter.requests < MaxRequests
    /\ exporter.request.pc = "idle"
    /\ exporter' = [exporter EXCEPT
          !.request = [pc |-> "node_mode",
                       state_value |-> exporter.current_metrics.state_value,
                       state_name |-> exporter.current_metrics.state_name,
                       pubkey_validator |->
                           exporter.current_metrics.pubkey_validator],
          !.response = NoResponse,
          !.requests = @ + 1]
    /\ ExporterUnchanged

\* serve_metrics from its second block under metrics_lock, which copies
\* node_mode, to the answer
ServeMetricsEnds ==
    /\ exporter.request.pc = "node_mode"
    /\ exporter' = [exporter EXCEPT
          !.request = [pc |-> "idle"],
          !.response = [state_value |-> exporter.request.state_value,
                        state_name |-> exporter.request.state_name,
                        pubkey_validator |-> exporter.request.pubkey_validator,
                        node_mode |-> exporter.current_metrics.node_mode]]
    /\ ExporterUnchanged

ExporterInit ==
    /\ EngineStart(0)
    /\ ord = NoOrder
    /\ gauges = NoGauges
    /\ ClientStart(FALSE)
    /\ ledger_handler = NoLedgerHandler
    /\ hot = NoHot
    /\ exporter = NewExporter
    /\ StartupAtRest

NextExporter == StatePoll \/ ServeMetricsBegins \/ ServeMetricsEnds

SpecExporter == ExporterInit /\ [][NextExporter]_vars

-----------------------------------------------------------------------------
(* Part 9: the start-up recovery of validations_total                       *)
(*   (ValidationsHandler._recover_validations_total_counter).  The replies  *)
(*   of the TSDB are the inputs; sample values are in tenths, so that a     *)
(*   value with a fraction can be told from a whole one.                    *)

LookbackSeconds == 300
UptimeTolerance == 120

\* VictoriaMetricsClient.query and query_range return None when the request
\* fails or the status code is not 200
NoReply == [status |-> "none"]

ErrorReply == [status |-> "error"]

\* float(x) of a sample value, kept in tenths
Float(x) == x

\* int(float(x)): the whole part of a non-negative value
IntOfFloat(x) == Float(x) \div 10

\* a range reply holds the samples of the steps that have one, oldest
\* first; ts is the time of a sample counted from the start of the range
StepTimes == {0, 180}

PastUptimes == {600, 60000}

\* the samples of a range whose oldest sample is at ts with value v: that
\* sample only, or that sample and the sample of the last step one minute
\* of uptime later
RangeSamples(ts, v) ==
    { <<[ts |-> ts, value |-> v]>>,
      <<[ts |-> ts, value |-> v],
        [ts |-> LookbackSeconds,
         value |-> v + 10 * (LookbackSeconds - ts)]>> }

RangeReplies ==
    {NoReply, ErrorReply,
     [status |-> "success", result |-> <<>>],
     [status |-> "success", result |-> <<[values |-> <<>>]>>]}
    \cup { [status |-> "success", result |-> <<[values |-> vs]>>] :
             vs \in UNION { RangeSamples(ts, v) :
                              ts \in StepTimes, v \in PastUptimes } }

\* an instant reply: value is the pair [timestamp, "value"], here the value
\* alone, or <<>> for a pair that is too short
InstantReplies(values) ==
    {NoReply, ErrorReply,
     [status |-> "success", result |-> <<>>],
     [status |-> "success", result |-> <<[value |-> <<>>]>>]}
    \cup { [status |-> "success", result |-> <<[value |-> <<v>>]>>] :
             v \in values }

\* 60 s; 120 s less than the larger past uptime; a tenth less than that;
\* 300 s more than it
CurrentUptimes == {600, 58800, 58799, 63000}

\* a counter of 0, of 7, and a value with a fraction
CounterValues == {0, 70, 75}

\* the reply carries a value
HasValue(reply) ==
    /\ reply.status = "success"
    /\ reply.result # <<>>
    /\ Len(reply.result[1].value) >= 1

\* the range reply carries samples
HasSamples(reply) ==
    /\ reply.status = "success"
    /\ reply.result # <<>>
    /\ reply.result[1].values # <<>>

\* _try_recover_validations_counter: the counter after it and whether it
\* assigned
TryRecoverValidationsCounter(validations_total, max_reply) ==
    IF HasValue(max_reply)
    THEN [validations_total |-> IntOfFloat(max_reply.result[1].value[1]),
          path |-> "restored"]
    ELSE [validations_total |-> validations_total, path |-> "kept"]

\* the comparison of line 569
Restarted(current_uptime, past_uptime) ==
    Float(current_uptime) < Float(past_uptime) - 10 * UptimeTolerance

\* _recover_validations_total_counter
RecoverValidationsTotalCounter(total, range_reply, current_reply, max_reply) ==
    IF ~HasSamples(range_reply)
    THEN TryRecoverValidationsCounter(total, max_reply)
    ELSE LET past_uptime == range_reply.result[1].values[1].value
         IN  IF ~HasValue(current_reply)
             THEN TryRecoverValidationsCounter(total, max_reply)
             ELSE IF Restarted(current_reply.result[1].value[1], past_uptime)
                  THEN [validations_total |-> 0, path |-> "reset"]
                  ELSE TryRecoverValidationsCounter(total,
                                                    max_reply)

RecoveryUnchanged ==
    UNCHANGED <<engineVars, orderVars, connVars, writerVars,
                ledger_handler, hot, exporter, state_manager>>

\* recover_from_victoria_metrics, step 2
RecoverTotal ==
    /\ recovery.stage = "start"
    /\ LET out == RecoverValidationsTotalCounter(
                      recovery.validations_total, recovery.range_reply,
                      recovery.current_reply, recovery.max_reply)
       IN  recovery' = [recovery EXCEPT !.stage = "done",
                           !.validations_total = out.validations_total,
                           !.path = out.path]
    /\ RecoveryUnchanged

RecoveryInit ==
    /\ EngineStart(0)
    /\ ord = NoOrder
    /\ gauges = NoGauges
    /\ ClientStart(FALSE)
    /\ ledger_handler = NoLedgerHandler
    /\ hot = NoHot
    /\ exporter = NoExporter
    /\ state_manager = NoStateManager
    /\ \E r \in RangeReplies, c \in InstantReplies(CurrentUptimes),
          m \in InstantReplies(CounterValues) :
          recovery = [stage |-> "start", validations_total |-> 0,
                      path |-> "none", range_reply |-> r,
                      current_reply |-> c, max_reply |-> m]

NextRecovery == RecoverTotal

SpecRecovery == RecoveryInit /\ [][NextRecovery]_vars

-----------------------------------------------------------------------------
(* Part 10: the frame loop of XRPLWebSocketClient.listen on messages of     *)
(*   every kind.  The client carries _message_count and _last_message_time; *)
(*   net.kinds holds the kind of every message that has arrived and         *)
(*   net.raised the messages whose handler has raised.                      *)

MaxMessages == 2
ListenTicks == 2

\* a message with a handler in the map; a message whose type has none; a
\* message without a 'type' field
MessageKinds == {"handled", "unknown", "untyped"}

\* self._message_count += 1; self._last_message_time = datetime.now()
CountMessage(c, t) ==
    [c EXCEPT !.message_count = @ + 1, !.last_message_time = t]

\* the body of the frame loop for one message, the connection being up:
\* the message is counted, then routed by its type
RouteMessage(st, id, kind, t) ==
    LET s1 == [st EXCEPT !.client = CountMessage(@, t)]
    IN  IF kind = "handled" THEN InvokeHandler(s1, id) ELSE s1

ListenUnchanged ==
    UNCHANGED <<sup, shutdown_event, orderVars, writerVars, handlerVars>>

EngineAtRest == UNCHANGED <<events, eng, hpc, tsdb, epoch, horizon>>

\* time passes
ListenClock ==
    /\ ticks < ListenTicks
    /\ now' = now + 1
    /\ ticks' = ticks + 1
    /\ UNCHANGED <<client, listen_task, heartbeat_task, net>>
    /\ EngineAtRest
    /\ ListenUnchanged

\* a message arrives on the socket and is queued
MessageArrives ==
    /\ client.open
    /\ client.subscribed
    /\ net.frames < MaxMessages
    /\ \E kind \in MessageKinds :
          net' = [net EXCEPT !.frames = @ + 1, !.kinds = Append(@, kind)]
    /\ client' = [client EXCEPT !.inbox = Append(@, net.frames + 1)]
    /\ UNCHANGED <<listen_task, heartbeat_task, now, ticks>>
    /\ EngineAtRest
    /\ ListenUnchanged

\* the loop of listen takes the next message
ListenMessage ==
    /\ listen_task.pc = "recv"
    /\ ~listen_task.cancel
    /\ client.open
    /\ client.inbox # <<>>
    /\ LET id == Head(client.inbox)
           s1 == [St EXCEPT !.client.inbox = Tail(@)]
       IN  IF client.is_connected
           THEN SetSt(RouteMessage(s1, id, net.kinds[id], now))
           ELSE SetSt(StreamEnded(s1))
    /\ UNCHANGED <<net, now, ticks>>
    /\ EngineAtRest
    /\ ListenUnchanged

\* the handler raises an Exception: the loop logs it (no on_error callback
\* is given by run_monitor) and takes the next message
HandlerRaises ==
    /\ listen_task.pc = "handler"
    /\ ~listen_task.cancel
    /\ net' = [net EXCEPT !.raised = @ \cup listen_task.running]
    /\ listen_task' = [listen_task EXCEPT !.pc = "recv", !.running = {}]
    /\ UNCHANGED <<client, heartbeat_task, now, ticks>>
    /\ EngineAtRest
    /\ ListenUnchanged

ListenInit ==
    /\ EngineStart(0)
    /\ ord = NoOrder
    /\ victoria = NewWriter
    /\ gauges = NoGauges
    /\ HandlersAtRest
    /\ client = [ConnectedClient EXCEPT !.subscribed = TRUE]
                   @@ [message_count |-> 0, last_message_time |-> NoTime]
    /\ listen_task = NewTask
    /\ heartbeat_task = "running"
    /\ sup = [pc |-> "wait", reconnect_attempt |-> 0, delay |-> 0]
    /\ shutdown_event = FALSE
    /\ net = [frames |-> 0, faults |-> 0, down |-> FALSE,
              kinds |-> <<>>, raised |-> {}]

NextListen ==
    \/ ListenStart
    \/ ListenClock
    \/ MessageArrives
    \/ ListenMessage
    \/ HandlerReturns
    \/ HandlerRaises
    \/ ListenStreamEnds
    \/ ListenStreamError
    \/ ListenReconnect
    \/ ListenSubscribe

SpecListen == ListenInit /\ [][NextListen]_vars

-----------------------------------------------------------------------------
(* Part 11: the engine with a reconciliation task that keeps running: the   *)
(*   messages arrive in the first seconds, the clock runs until every age   *)
(*   that the cycle tests has passed, and from then on `now` stands for     *)
(*   that time or any later one                                             *)

\* the time of the last arrival: the first two clock advances
LastArrival == 9

ArrivingLedgerClosed == now <= LastArrival /\ LedgerClosed

ArrivingValidation == now <= LastArrival /\ OurValidation

\* time passes after the last clock advance of the model: the sleep of the
\* reconciliation task is over
LateTick ==
    /\ ticks = horizon
    /\ eng.recon.pc = "sleep"
    /\ now < eng.recon.wake
    /\ eng' = [eng EXCEPT !.recon.wake = now]
    /\ UNCHANGED <<now, ticks, events, hpc, tsdb, epoch, horizon>>
    /\ UNCHANGED nonEngineVars

PendingInit == EngineStart(MaxTicks) /\ ord = NoOrder /\ ConnStart

NextPending ==
    \/ Tick
    \/ LateTick
    \/ ArrivingLedgerClosed
    \/ ArrivingValidation
    \/ WriteMetrics
    \/ ReconcileCycle
    \/ ReconcileResume

\* the sleep of the reconciliation task is over
CycleDue == eng.recon.pc = "sleep" /\ now >= eng.recon.wake

\* a step of ReconcileCycle
CycleRuns == CycleDue /\ now' = now /\ events' = events /\ eng' # eng

\* the clock advances, the handler finishes, and the event loop runs the
\* reconciliation task when its sleep is over or its await is done; the
\* last conjunct is the weak fairness of ReconcileCycle, which is enabled
\* exactly when its cycle is due
PendingFairness ==
    /\ WF_vars(Tick)
    /\ WF_vars(LateTick)
    /\ WF_vars(WriteMetrics)
    /\ WF_vars(ReconcileResume)
    /\ ([]<>(~CycleDue) \/ []<><<CycleRuns>>_vars)

SpecPending == PendingInit /\ [][NextPending]_vars /\ PendingFairness

-----------------------------------------------------------------------------
(* Part 12: the StateManager (src/src/monitor/state_manager.py) under the   *)
(*   calls of the health task.  _health_status is kept in halves: 2 is 1    *)
(*   (ok), 1 is 0.5 (degraded), 0 is 0 (failed).                            *)

MaxSaves == 4
StateTicks == 2

HealthOk == 2
HealthDegraded == 1
HealthFailed == 0
FailuresToFail == 3

\* how a call of save_state ends: both layers written; write_metric raises;
\* the write of the JSON file raises; the task is cancelled at the await of
\* write_metric
SaveOutcomes == {"saved", "metric_error", "file_error", "cancelled"}

\* a status that turns to failed one failure late
HealthAfterFailureLate(save_failures) ==
    IF save_failures > FailuresToFail THEN HealthFailed ELSE HealthDegraded

\* `if self._save_failures >= 3` of the except branch
HealthAfterFailure(save_failures) ==
    IF save_failures >= FailuresToFail THEN HealthFailed ELSE HealthDegraded

\* calls, last and streak are history: the number of calls of save_state,
\* how the last one ended, and the failures in a row up to it; exported is
\* the last xrpl_state_health sample
NewStateManager ==
    [stage |-> "on", health_status |-> HealthOk, last_save_time |-> 0,
     save_failures |-> 0, calls |-> 0, last |-> "none", streak |-> 0,
     exported |-> NoTime]

\* save_state
SaveStateOf(sm, outcome, t) ==
    LET s1 == [sm EXCEPT !.calls = @ + 1, !.last = outcome]
    IN  IF outcome = "saved"
        THEN [s1 EXCEPT !.last_save_time = t, !.save_failures = 0,
                        !.health_status = HealthOk, !.streak = 0]
        ELSE IF outcome \in {"metric_error", "file_error"}
             THEN [s1 EXCEPT !.save_failures = @ + 1,
                             !.health_status =
                                 HealthAfterFailure(sm.save_failures + 1),
                             !.streak = @ + 1]
             ELSE [s1 EXCEPT !.stage = "cancelled"]

StateUnchanged ==
    UNCHANGED <<orderVars, connVars, writerVars, ledger_handler, hot,
                exporter, recovery>>

\* time passes
StateClock ==
    /\ ticks < StateTicks
    /\ now' = now + 1
    /\ ticks' = ticks + 1
    /\ UNCHANGED <<events, eng, hpc, tsdb, epoch, horizon, state_manager>>
    /\ StateUnchanged

\* backup_critical_metrics calls save_state for one metric
SaveState ==
    /\ state_manager.stage = "on"
    /\ state_manager.calls < MaxSaves
    /\ \E outcome \in SaveOutcomes :
          state_manager' = SaveStateOf(state_manager, outcome, now)
    /\ UNCHANGED engineVars
    /\ StateUnchanged

\* emit_health_metrics
EmitHealthMetrics ==
    /\ state_manager.stage = "on"
    /\ state_manager' =
          [state_manager EXCEPT !.exported = state_manager.health_status]
    /\ UNCHANGED engineVars
    /\ StateUnchanged

StateInit ==
    /\ EngineStart(0)
    /\ ord = NoOrder
    /\ gauges = NoGauges
    /\ ClientStart(FALSE)
    /\ ledger_handler = NoLedgerHandler
    /\ hot = NoHot
    /\ exporter = NoExporter
    /\ recovery = NoRecovery
    /\ state_manager = NewStateManager

NextState == StateClock \/ SaveState \/ EmitHealthMetrics

SpecState == StateInit /\ [][NextState]_vars

-----------------------------------------------------------------------------
(* Properties of the VictoriaMetricsClient *)

\* task t is suspended in a write that neither asks for a flush nor can fill
\* the batch
WaitsWithPlainWrite(t) ==
    /\ victoria.call[t].pc = "acquire"
    /\ victoria.call[t].op = "write"
    /\ ~victoria.call[t].flush_immediately
    /\ victoria.batch + victoria.call[t].n < BatchSize

\* the holder of the lock is inside a POST or a sleep of _flush_batch
FlushInProgress ==
    /\ victoria.holder \in Producers
    /\ victoria.call[victoria.holder].pc \in {"post", "sleep"}

\* C18 as claimed: a write that neither asks for a flush nor fills the batch
\* is never kept waiting while the flush of another task is in progress.
C18_PlainWriteNeverWaits ==
    \A t \in Producers : ~(WaitsWithPlainWrite(t) /\ FlushInProgress)

\* the sleeps of _flush_batch, attempt by attempt
RetrySleeps == <<2, 4>>

-----------------------------------------------------------------------------
(* Properties of the window gauges *)

\* num / den rounded to the nearest integer, a tie going to the even one
Round(num, den) ==
    LET q == num \div den
        r == num % den
    IN  IF 2 * r < den THEN q
        ELSE IF 2 * r > den THEN q + 1
        ELSE IF q % 2 = 0 THEN q ELSE q + 1

\* agreed + round(baseline * max(0, 1 - age / window))
ClaimedAgreements(agreed, baseline, recovery_age, window) ==
    agreed + Round(baseline * (IF recovery_age < window
                               THEN window - recovery_age ELSE 0), window)

\* C20 as claimed: with a baseline loaded, every emission exports for each
\* window the agreed records of the deque plus the rounded decayed baseline.
C20_ExportedIsRounded ==
    (gauges.emitted /\ gauges.baseline # NoBaseline)
    => \A w \in Windows :
          gauges.agreements[w] =
             ClaimedAgreements(gauges.agreed, gauges.baseline,
                               RecoveryAges[gauges.age], WindowSeconds(w))

\* C21: with empty deques and a baseline loaded, agreements_1h is the
\* baseline at recovery age 0 and the deque count alone (0) from 3600 s on;
\* in between, and for the 24 h window alike, the decayed baseline that an
\* emission adds is not negative, is at most the baseline and is 0 from the
\* window's length on, and from one emission to the next it never grows.
C21_DecayOfBaseline ==
    /\ []((gauges.emitted /\ gauges.baseline # NoBaseline
              /\ gauges.agreed = 0)
          => /\ RecoveryAges[gauges.age] = 0
                  => gauges.agreements["1h"] = gauges.baseline
             /\ RecoveryAges[gauges.age] >= Window1h
                  => gauges.agreements["1h"] = 0)
    /\ []((gauges.emitted /\ gauges.baseline # NoBaseline)
          => \A w \in Windows :
                /\ gauges.agreements[w] - gauges.agreed = gauges.recovered[w]
                /\ gauges.recovered[w] >= 0
                /\ gauges.recovered[w] <= gauges.baseline
                /\ RecoveryAges[gauges.age] >= WindowSeconds(w)
                     => gauges.recovered[w] = 0)
    /\ [][\A w \in Windows :
            gauges.recovered[w] # NoBaseline
               => gauges'.recovered[w] <= gauges.recovered[w]]_vars

\* an emission with empty deques strictly inside the 1 h window, after an
\* earlier emission, exports a part of the baseline
C21_Witness ==
    /\ gauges.emitted
    /\ gauges.agreed = 0
    /\ gauges.baseline = 1000
    /\ RecoveryAges[gauges.age] = 1801
    /\ gauges.agreements["1h"] = 499
    /\ gauges.recovered["1h"] = 499

\* C23: in every emission the percentage of each window lies in [0, 100]
\* and is 100 * agreed / (agreed + missed) of the agreed and missed gauges
\* of the same window and emission when their sum is positive, 0 otherwise.
C23_PctFromEmittedCounts ==
    gauges.emitted
    => \A w \in Windows :
          LET a == gauges.agreements[w]
              m == gauges.missed_out[w]
              pct == gauges.pct[w]
          IN  /\ pct.den > 0
              /\ 0 <= pct.num
              /\ pct.num <= 100 * pct.den
              /\ a >= 0 /\ m >= 0
              /\ IF a + m > 0
                 THEN pct.num * (a + m) = 100 * a * pct.den
                 ELSE pct.num = 0

\* an emission in which the decay branch changed the counts of the 1 h
\* window, whose deque holds records of both kinds, and with them the
\* percentage
C23_Witness ==
    /\ gauges.emitted
    /\ gauges.agreed > 0 /\ gauges.missed > 0
    /\ gauges.agreements["1h"] > gauges.agreed
    /\ gauges.missed_out["1h"] > gauges.missed
    /\ gauges.pct["1h"] # Percent(gauges.agreed, gauges.agreed + gauges.missed)

-----------------------------------------------------------------------------
(* Properties of the grace period *)

\* the record lacks its consensus hash or its closing time, or no more than
\* the grace period has passed since it was closed
TooEarly(r) ==
    \/ r.consensus_hash = NoHash
    \/ r.closed_at = NoTime
    \/ now - r.closed_at <= GracePeriod

\* C27: while a PendingLedger lacks consensus_hash or closed_at, and until
\* more than grace_period (8 s) has passed since closed_at, the record is
\* not finalized, no finalization of it has begun and it has changed neither
\* agreements_total nor missed_total; and no step, a second on_ledger_closed
\* included, changes a closed_at that is set.
C27_NoEarlyFinalization ==
    /\ [](\A i \in DOMAIN eng.pending :
            TooEarly(eng.pending[i])
            => /\ ~eng.pending[i].finalized
               /\ eng.pending[i].finalized_as_missed_at = NoTime
               /\ eng.credit[i] = NoCredit)
    /\ [][\A i \in DOMAIN eng.pending \cap DOMAIN eng'.pending :
            /\ eng.pending[i].closed_at # NoTime
                 => eng'.pending[i].closed_at = eng.pending[i].closed_at
            /\ TooEarly(eng.pending[i])
                 => /\ eng'.credit[i] = eng.credit[i]
                    /\ ~eng'.pending[i].finalized
         ]_vars

\* a ledger closed at time 0 whose hash a later ledgerClosed replaced is
\* finalized as missed by the cycle of second 9, the first after the grace
\* period, and has been counted once
C27_Witness ==
    /\ now = GracePeriod + 1
    /\ events = 2
    /\ \E i \in DOMAIN eng.pending :
          /\ DOMAIN eng.pending = {i}
          /\ eng.pending[i].closed_at = 0
          /\ eng.pending[i].consensus_hash = "B"
          /\ eng.pending[i].our_hash = NoHash
          /\ eng.pending[i].finalized
          /\ eng.credit[i] = [a |-> 0, m |-> 1, repairs |-> 0]

-----------------------------------------------------------------------------
(* Properties of the buffer of consensus hashes *)

\* the k distinct ledger indices stored last
MostRecent(lh, k) ==
    {lh.recency[j] : j \in (Len(lh.recency) - k + 1)..Len(lh.recency)}

\* C25: get_consensus_hash answers for at most 1000 ledger indices; the
\* indices it answers for are exactly the ones stored most recently (every
\* index it has forgotten was stored before every index it still knows); for
\* each of them it returns the hash of the latest ledgerClosed of that index,
\* and for every other index None.
C25_BufferOfRecentLedgers ==
    LET known == DOMAIN ledger_handler.ledger_hash_lookup
    IN  /\ Cardinality(known) <= LedgerHashBufferSize
        /\ known = MostRecent(ledger_handler, Cardinality(known))
        /\ \A i \in 1..(LastLedger(ledger_handler) + 1) :
              GetConsensusHash(ledger_handler, i) =
                 IF i \in known THEN ledger_handler.latest[i] ELSE NoHash

\* more than 1000 ledgers have been stored, the oldest of them have been
\* evicted, and a ledger closed twice answers with its second hash
C25_Witness ==
    /\ Len(ledger_handler.recency) > LedgerHashBufferSize
    /\ GetConsensusHash(ledger_handler, 1) = NoHash
    /\ Len(ledger_handler.ledger_hashes) = LedgerHashBufferSize
    /\ \E i \in DOMAIN ledger_handler.ledger_hash_lookup :
          /\ i <= LedgerHashBufferSize
          /\ GetConsensusHash(ledger_handler, i) = "B"

-----------------------------------------------------------------------------
(* Properties of the state exporter *)

\* C26 as claimed: the state_value, state_name, pubkey_validator and
\* node_mode of every /metrics response are the values that one update of
\* current_metrics wrote together.
C26_ResponseFromOneUpdate ==
    exporter.response # NoResponse => exporter.response \in exporter.written

-----------------------------------------------------------------------------
(* Properties of the hot path *)

\* the records of the deque of window w
Records(w) == {Deque(hot, w)[k] : k \in DOMAIN Deque(hot, w)}

\* C22 as claimed: after an emission of the gauges, by handle or by
\* flush_metrics, no window deque holds a record older than its window.
C22_NoStaleRecordAtEmission ==
    hot.emitted # "none"
    => \A w \in Windows :
          \A r \in Records(w) : now - r.timestamp <= WindowSeconds(w)

\* C24 as claimed: for every ledger index, at most one record of that
\* ledger is ever appended to each window deque, the missed records of the
\* reconciliation cycle included.
C24_OneRecordPerLedger ==
    \A w \in Windows :
       \A i \in DOMAIN hot.appended[w] : hot.appended[w][i] <= 1

\* the step is a call of handle: no other action counts a validation
HandleStep == hot'.validations_checked_total # hot.validations_checked_total

\* C28: a validation of our validator for a ledger that the de-duplication
\* set holds adds 1 to validations_checked_total and changes neither
\* validations_total, nor a window deque, nor the pending table (our_hash
\* and validated_at of the ledger's record included), nor the set, whatever
\* its hash.
C28_DuplicateChangesNothing ==
    [][(/\ HandleStep
        /\ hot.our_validator_key # NoKey
        /\ IsOurValidator(hot'.message, hot.our_validator_key)
        /\ hot'.message.ledger_index \in eng.seen_ledgers)
       => /\ hot'.validations_checked_total
                = hot.validations_checked_total + 1
          /\ hot'.validations_total = hot.validations_total
          /\ hot'.validations_1h = hot.validations_1h
          /\ hot'.validations_24h = hot.validations_24h
          /\ eng' = eng
          /\ hpc' = hpc
      ]_vars

\* a second validation of ours for a ledger, with another hash than the
\* first, has been handled
C28_Witness ==
    /\ hot.message.type = "validationReceived"
    /\ IsOurValidator(hot.message, hot.our_validator_key)
    /\ hot.validations_checked_total = 2
    /\ hot.validations_total = 1
    /\ hot.message.ledger_index \in DOMAIN eng.pending
    /\ eng.pending[hot.message.ledger_index].our_hash # NoHash
    /\ eng.pending[hot.message.ledger_index].our_hash
          # hot.message.ledger_hash

-----------------------------------------------------------------------------
(* Properties of the de-duplication set *)

MinOf(S) == CHOOSE x \in S : \A y \in S : x <= y

MaxOf(S) == CHOOSE x \in S : \A y \in S : y <= x

\* C29: the de-duplication set never holds more than 2000 ledger indices
\* once a validation is handled; an insertion that makes it 2001 evicts
\* exactly 500 indices, each smaller than every index kept, and any other
\* insertion evicts nothing; and as long as no eviction has happened,
\* validations_total has counted every ledger of ours at most once.
C29_BoundedDedupSet ==
    /\ [](Cardinality(eng.seen_ledgers) <= SeenLedgersMaxSize)
    /\ [][eng'.seen_ledgers # eng.seen_ledgers
            => LET S == eng.seen_ledgers \cup {hot'.message.ledger_index}
                   gone == S \ eng'.seen_ledgers
               IN  /\ eng'.seen_ledgers \subseteq S
                   /\ IF Cardinality(S) > SeenLedgersMaxSize
                      THEN /\ Cardinality(gone) = SeenLedgersEvicted
                           /\ MaxOf(gone) < MinOf(eng'.seen_ledgers)
                      ELSE gone = {}
         ]_vars
    /\ [](hot.evictions = 0
            => \A i \in DOMAIN hot.counted : hot.counted[i] <= 1)

\* the validation of a new ledger has made the set 2001 large, the 500
\* smallest are gone, and every ledger has been counted once so far
C29_Witness ==
    /\ hot.evictions = 1
    /\ Cardinality(eng.seen_ledgers)
          = SeenLedgersMaxSize + 1 - SeenLedgersEvicted
    /\ MinOf(eng.seen_ledgers) = SeenLedgersEvicted + 2
    /\ hot.message.ledger_index = SeenLedgersMaxSize + 2
    /\ \A i \in DOMAIN hot.counted : hot.counted[i] = 1

-----------------------------------------------------------------------------
(* Properties of the start-up recovery *)

\* the oldest sample of the range is the sample of the step 300 s ago
PastSampleAtStart(reply) ==
    HasSamples(reply) /\ reply.result[1].values[1].ts = 0

\* C31: once the recovery of validations_total is done, the counter was set
\* to 0 exactly when there is an uptime sample for 300 s ago and one for now
\* and the current uptime is more than 120 s below the past one; in every
\* other case the counter holds the value of
\* max_over_time(xrpl_validations_total[24h]) when that query returned one.
C31_ResetExactlyOnRestart ==
    recovery.stage = "done"
    => LET r == recovery.range_reply
           c == recovery.current_reply
           m == recovery.max_reply
           decreased ==
               /\ PastSampleAtStart(r)
               /\ HasValue(c)
               /\ c.result[1].value[1]
                     < r.result[1].values[1].value - 10 * UptimeTolerance
       IN  /\ recovery.path = "reset" <=> decreased
           /\ decreased => recovery.validations_total = 0
           /\ (~decreased /\ HasValue(m))
                 => /\ recovery.path = "restored"
                    /\ recovery.validations_total * 10 <= m.result[1].value[1]
                    /\ m.result[1].value[1]
                          < (recovery.validations_total + 1) * 10

-----------------------------------------------------------------------------
(* Properties of the missed gauges *)

\* round(baseline * max(0, 1 - recovery_age / window)), to the nearest whole
RoundedShare(baseline, recovery_age, window) ==
    IF recovery_age >= window THEN 0
    ELSE (2 * baseline * (window - recovery_age) + window) \div (2 * window)

\* C32: at every emission the exported missed count of each window for
\* which a missed baseline was recovered is the number of missed records
\* of the deque plus round(baseline_missed * decay), with or without an
\* agreements baseline for that window.
C32_MissedBaselineDecays ==
    gauges.emitted
    => \A w \in Windows :
          gauges.missed_baseline # NoBaseline
          => gauges.missed_out[w]
                = gauges.missed
                  + RoundedShare(gauges.missed_baseline,
                                 RecoveryAges[gauges.age], WindowSeconds(w))

-----------------------------------------------------------------------------
(* More properties of the VictoriaMetricsClient *)

\* this step runs the body of the write of task t, which waited for the lock
WriteBodyRuns(t) ==
    /\ victoria.call[t].pc = "acquire"
    /\ victoria.call[t].op = "write"
    /\ victoria.holder = 0
    /\ victoria.waiters # <<>>
    /\ Head(victoria.waiters) = t
    /\ victoria'.waiters = Tail(victoria.waiters)
    /\ victoria'.cancels = victoria.cancels

\* C33: a write flushes exactly when flush_immediately is set or the batch
\* has reached batch_size after the append, and whenever no flush is in
\* progress the batch holds fewer than batch_size samples.
C33_FlushAtBatchSize ==
    /\ [][\A t \in Producers :
            WriteBodyRuns(t)
            => (victoria'.call[t].pc = "post"
                  <=> \/ victoria.call[t].flush_immediately
                      \/ victoria.batch + victoria.call[t].n >= BatchSize)
         ]_vars
    /\ [](~FlushInProgress => victoria.batch < BatchSize)

\* the samples of task t's write that wait for the lock, not yet appended
Waiting(w, t) ==
    IF w.call[t].pc = "acquire" /\ w.call[t].op = "write"
    THEN w.call[t].n
    ELSE 0

\* the samples passed to write_metric or write_metrics that no flush has
\* sent or discarded so far
Held(w) == w.batch + Waiting(w, 1) + Waiting(w, 2)

\* this step ends a flush: its batch was POSTed with success or given up
FlushEnds ==
    /\ victoria.holder # 0
    /\ victoria.call[victoria.holder].pc = "post"
    /\ victoria'.holder = 0
    /\ victoria'.last \in {"sent", "discarded"}

\* this step begins a flush, i.e. the first POST of a _flush_batch call
FlushBegins == victoria.attempt = 0 /\ victoria'.attempt = 1

\* the flush that began last was left without its batch being cleared
FlushAbandoned == victoria.posts >= 1 /\ victoria.last = "none"

\* C39: under every interleaving of writes, flushes and cancellations a
\* sample passed to write_metric or write_metrics leaves the client only in
\* a flush that POSTs or discards it, and it is never part of two flushes.
C39_EverySampleInOneFlush ==
    /\ [][Held(victoria') < Held(victoria) => FlushEnds]_vars
    /\ [][FlushBegins => ~FlushAbandoned]_vars

-----------------------------------------------------------------------------
(* Properties of the frame loop *)

\* this step takes a message of the given kind off the queue and routes it
TakesMessage(kind) ==
    /\ listen_task.pc = "recv"
    /\ client.is_connected
    /\ client.inbox # <<>>
    /\ client'.inbox = Tail(client.inbox)
    /\ client'.socket = client.socket
    /\ net.kinds[Head(client.inbox)] = kind

\* C34: a handler that raises leaves the frame loop waiting for the next
\* message with reconnect_attempts and the connection state as they were,
\* and taking a message of unknown type changes nothing in the client or
\* its task but the queue the message is taken from.
C34_HandlerErrorIsContained ==
    /\ [][net'.raised # net.raised
            => /\ listen_task'.pc = "recv"
               /\ listen_task'.stack = listen_task.stack
               /\ client' = client
         ]_vars
    /\ [][TakesMessage("unknown")
            => /\ client' = [client EXCEPT !.inbox = Tail(@)]
               /\ listen_task' = listen_task
         ]_vars

-----------------------------------------------------------------------------
(* Properties of the pending-ledger table over time *)

\* C35: every record that enters the pending-ledger table is removed from
\* it at some later time, a record created by on_our_validation for a
\* ledger that never closes included.
C35_PendingRecordsAreRemoved ==
    \A i \in Ledgers :
        (i \in DOMAIN eng.pending) ~> (i \notin DOMAIN eng.pending)

-----------------------------------------------------------------------------
(* Properties of the heartbeat monitor *)

\* C36: whenever the client is connected, the heartbeat monitor is running.
C36_HeartbeatWhileConnected ==
    client.is_connected => heartbeat_task = "running"

-----------------------------------------------------------------------------
(* Properties of the deques against the counters *)

\* the records of ledger i in the 24 h deque
RecordsOf(i) == {r \in Records("24h") : r.ledger_index = i}

\* no event of ledger i is older than 24 h, so that no record of the ledger
\* has been pruned
Recent(i) ==
    LET r == eng.pending[i]
    IN  /\ now - r.closed_at <= Window24h
        /\ r.validated_at # NoTime => now - r.validated_at <= Window24h

\* the verdict of ledger i is final: the ledger is finalized and no late
\* repair of it is still to come
FinalVerdict(i) ==
    LET r == eng.pending[i]
    IN  /\ r.finalized
        /\ ~(r.finalized_as_missed_at # NoTime /\ r.our_hash # "None")

\* C37: a finalized ledger that counts in agreements_total has a record
\* with agreed = true and none with agreed = false in the deques, and a
\* finalized ledger that counts in missed_total (missed or disagreed) has a
\* record with agreed = false and none with agreed = true.
C37_DequesMatchCounters ==
    \A i \in DOMAIN eng.pending :
        (FinalVerdict(i) /\ Recent(i))
        => /\ eng.credit[i].a = 1
                => /\ \E r \in RecordsOf(i) : r.agreed
                   /\ \A r \in RecordsOf(i) : r.agreed
           /\ eng.credit[i].m = 1
                => /\ \E r \in RecordsOf(i) : ~r.agreed
                   /\ \A r \in RecordsOf(i) : ~r.agreed


\* the last counter sample stored in the TSDB carries the two counters as
\* they are now
CountersExported ==
    /\ tsdb.has
    /\ tsdb.lastA = eng.agreements_total
    /\ tsdb.lastM = eng.missed_total

\* C38: a change that the reconciliation cycle makes to agreements_total or
\* missed_total is exported in the end: at any time, the counters once
\* changed, there is a later time at which the last sample stored carries
\* their current values.
C38_CycleChangesAreExported ==
    []<>(eng.agreements_total + eng.missed_total > 0 => CountersExported)

-----------------------------------------------------------------------------
(* Properties of the StateManager *)

\* C40: after a call of save_state that succeeded _health_status is 1 and
\* the count of failures in a row is 0; after a call that failed it is 0.5
\* when the call was the first or the second failure in a row and 0 when it
\* was the third or a later one.
C40_HealthFollowsFailures ==
    [][state_manager'.calls # state_manager.calls
         => /\ state_manager'.last = "saved"
                 => /\ state_manager'.health_status = HealthOk
                    /\ state_manager'.save_failures = 0
            /\ state_manager'.last \in {"metric_error", "file_error"}
                 => /\ state_manager'.streak \in {1, 2}
                         => state_manager'.health_status = HealthDegraded
                    /\ state_manager'.streak >= 3
                         => state_manager'.health_status = HealthFailed
      ]_vars

\* the third failure in a row after a save that succeeded: failed
C40_Witness ==
    /\ state_manager.stage = "on"
    /\ state_manager.calls = 4
    /\ state_manager.streak = 3
    /\ state_manager.last = "file_error"
    /\ state_manager.health_status = HealthFailed
    /\ state_manager.exported = HealthDegraded

====
